---- MODULE Spec2Model ----
(***************************************************************************)
(* Model of the server-side audio preview pipeline of heyyo-stardom:       *)
(*   - api/generate-preview.ts   (request handler, src/unnamed/part_003)   *)
(*   - scripts/generate_preview.js (CLI, src/unnamed/part_010)             *)
(* Each invocation is a linear sequence of steps separated by its await    *)
(* points; the host file system (scratch directories), the destination     *)
(* store and the clock are shared by all invocations.                      *)
(*                                                                         *)
(* Strings are modelled as sequences of atoms.  An atom is a run of        *)
(* characters containing neither "." nor "/", or one of the atoms "." and  *)
(* "/" themselves.                                                          *)
(***************************************************************************)
EXTENDS Integers, Sequences, FiniteSets, TLC

\* ------------------------------------------------------------------ bounds
NumInv == 2      \* invocations in one behaviour
MaxDirs == 2     \* scratch directories the host has room for
MaxClock == 1    \* last value of the millisecond clock
NumFlows == 2    \* download flows of one user in one behaviour
MaxDeliveries == 2  \* deliveries of one webhook event
MaxUsed == 2     \* largest download counter a subscription run starts from
MaxLoads == 3    \* loadAudio calls in one behaviour
MaxCalls == 2    \* beatService.recordDownload calls in one behaviour

Inv == 1..NumInv
DirNames == 1..MaxDirs

\* ------------------------------------------------------------ JS values
\* undefined, boolean true, JSON null and strings; the only shapes the two
\* entry points can receive from argv, process.env or the request body here.
Undef == [t |-> "undefined", s |-> <<>>]
True == [t |-> "true", s |-> <<>>]
Str(s) == [t |-> "string", s |-> s]

\* JavaScript truthiness, as used by  !x  and  x || y
Truthy(v) == v.t = "true" \/ (v.t = "string" /\ v.s # <<>>)
Or(v, w) == IF Truthy(v) THEN v ELSE w

\* String(v) as done by template literals and by the storage client when it
\* builds a request path
ToStr(v) == IF v.t = "string" THEN v.s ELSE <<v.t>>

\* decimal digits of a natural number, as `${Date.now()}` renders it
Digit(d) == <<"0", "1", "2", "3", "4", "5", "6", "7", "8", "9">>[d + 1]
RECURSIVE Dec(_)
Dec(n) == IF n < 10 THEN <<Digit(n)>> ELSE Dec(n \div 10) \o <<Digit(n % 10)>>

\* ------------------------------------------------------- path.extname
\* index of the last occurrence of atom a in s, 0 when absent
LastIndexOf(s, a) ==
    LET hits == {k \in 1..Len(s) : s[k] = a}
    IN  IF hits = {} THEN 0 ELSE CHOOSE k \in hits : \A m \in hits : m <= k

RECURSIVE StripTrailingSlashes(_)
StripTrailingSlashes(s) ==
    IF Len(s) > 0 /\ s[Len(s)] = "/"
    THEN StripTrailingSlashes(SubSeq(s, 1, Len(s) - 1))
    ELSE s

\* last path segment
BaseName(s) ==
    LET t == StripTrailingSlashes(s)
        k == LastIndexOf(t, "/")
    IN  SubSeq(t, k + 1, Len(t))

\* Node's path.extname: from the last "." of the last segment to its end;
\* "" when there is no ".", when the only "." starts the segment, or for ".."
ExtName(s) ==
    LET b == BaseName(s)
        k == LastIndexOf(b, ".")
    IN  IF k <= 1 \/ b = <<".", ".">> THEN <<>> ELSE SubSeq(b, k, Len(b))

\* path.extname throws a TypeError on a non-string argument
ExtNameThrows(v) == v.t # "string"

\* an input file always named input.mp3
ExtOrDefault_Mp3(v) == <<".", "mp3">>
\* const ext = path.extname(sourcePath) || '.mp3'
ExtOrDefault(v) == IF ExtName(v.s) # <<>> THEN ExtName(v.s) ELSE <<".", "mp3">>

\* input${ext}  and  preview.mp3  inside the scratch directory
InputName(ext) == <<"input">> \o ext
OutputName == <<"preview", ".", "mp3">>

\* ----------------------------------------------------- destination naming
DefaultDestBucket == Str(<<"beat-previews">>)

\* a generated key outside the previews/ folder
GeneratedKey_Flat(ms) == Str(<<"preview_">> \o Dec(ms) \o <<".", "mp3">>)
\* `previews/preview_${Date.now()}.mp3`
GeneratedKey(ms) == Str(<<"previews", "/", "preview_">> \o Dec(ms) \o <<".", "mp3">>)

\* buckets that exist in the storage project; an upload to any other bucket
\* is answered with an error
KnownBuckets == {<<"beat-previews">>, <<"custom">>}

\* getPublicUrl(key) of bucket b on the project at SUPABASE_URL
PublicUrl(url, b, k) ==
    ToStr(url) \o <<"/", "storage", "/", "v1", "/", "object", "/", "public", "/">>
               \o ToStr(b) \o <<"/">> \o ToStr(k)

\* content type the storage client sends when upload() gets no contentType
\* option and the body is a stream
DefaultContentType == <<"text", "/", "plain;charset=UTF-8">>

\* --------------------------------------------------------------- inputs
Methods == {"POST", "GET"}

ProjectUrl == Str(<<"https:", "/", "/", "proj">>)
ServiceKey == Str(<<"service-role-key">>)

\* process.env as the two values the entry points read
Envs ==
    { [url |-> ProjectUrl, key |-> ServiceKey],
      [url |-> Undef, key |-> ServiceKey],
      [url |-> ProjectUrl, key |-> Undef] }

WavPath == Str(<<"mp3", "/", "a", ".", "wav">>)
BarePath == Str(<<"mp3", "/", "noext">>)
GivenKey == Str(<<"previews", "/", "p1", ".", "mp3">>)

\* result of req.json(): rejected, JSON null, or an object with these fields
\* (a field the object lacks reads as undefined)
NoBody == [json |-> "none", sourceBucket |-> Undef, sourcePath |-> Undef,
           destBucket |-> Undef, destPath |-> Undef]
Bodies ==
    { [NoBody EXCEPT !.json = "invalid"], [NoBody EXCEPT !.json = "null"] }
    \cup
    [ json : {"object"},
      sourceBucket : {Undef, Str(<<"beats">>)},
      sourcePath : {Undef, Str(<<>>), WavPath, BarePath},
      destBucket : {Undef, Str(<<>>), Str(<<"custom">>)},
      destPath : {Undef, GivenKey} ]

\* a command-line word: dd says it starts with "--", rest is what follows
\* the "--" (the whole word when dd is FALSE)
Flag(name) == [dd |-> TRUE, rest |-> <<name>>]
Word(v) == [dd |-> FALSE, rest |-> v.s]

\* process.argv.slice(2)
Argvs ==
    { <<>>,
      <<Flag("path"), Word(WavPath)>>,
      <<Flag("bucket"), Word(Str(<<"beats">>))>>,
      <<Flag("bucket"), Flag("path"), Word(WavPath)>>,
      <<Flag("bucket"), Word(Str(<<"beats">>)), Flag("path")>>,
      <<Flag("bucket"), Word(Str(<<"beats">>)), Flag("path"), Word(WavPath)>>,
      <<Flag("path"), Word(BarePath), Flag("bucket"), Word(Str(<<"beats">>)),
        Flag("dest"), Word(GivenKey)>>,
      <<Flag("bucket"), Word(Str(<<"beats">>)), Flag("path"), Word(WavPath),
        Flag("destBucket"), Word(Str(<<"custom">>)), Flag("dest"), Word(GivenKey)>>,
      <<Flag("bucket"), Word(Str(<<"beats">>)), Flag("path"), Word(WavPath),
        Flag("destBucket"), Flag("dest")>> }

ArgKeys == {"bucket", "path", "destBucket", "dest"}
NoArgs == [k \in ArgKeys |-> Undef]

\* parseArgs(): for every word starting with "--" the key is the rest of the
\* word and the value is the next word, unless that is missing, empty or
\* starts with "--" itself, and then the value is true
RECURSIVE ParseFrom(_, _, _)
ParseFrom(args, k, out) ==
    IF k > Len(args) THEN out
    ELSE LET a == args[k]
             hasVal == /\ k + 1 <= Len(args)
                       /\ args[k + 1].dd \/ args[k + 1].rest # <<>>
                       /\ ~args[k + 1].dd
             val == IF hasVal THEN Str(args[k + 1].rest) ELSE True
             key == IF Len(a.rest) = 1 THEN a.rest[1] ELSE ""
         IN  IF a.dd
             THEN ParseFrom(args, IF hasVal THEN k + 2 ELSE k + 1,
                            IF key \in ArgKeys THEN [out EXCEPT ![key] = val] ELSE out)
             ELSE ParseFrom(args, k + 1, out)
ParseArgs(args) == ParseFrom(args, 1, NoArgs)

\* ---------------------------------------------------------------- state
VARIABLES
    pc,       \* pc[i]: where invocation i stands
    kind,     \* kind[i]: "none", "handler" or "cli"
    req,      \* req[i]: what invocation i was called with
    loc,      \* loc[i]: local variables of invocation i
    resp,     \* resp[i]: HTTP response / process exit of invocation i
    trace,    \* trace[i]: external calls invocation i has made, in order
    log,      \* log[i]: what invocation i wrote to stdout / stderr
    stage,    \* stage[i][s]: what really became of stage s of invocation i:
              \* "idle", "run", "ok" or "fail", whatever the code made of it
    fsDirs,   \* scratch directories that exist on the host
    fsFiles,  \* files inside them
    store,    \* objects of the destination store
    now,      \* last value Date.now() returned
    got,      \* got[i]: what the external calls of invocation i came back
              \* with, in the order the invocation received it
    dl,       \* the download flows of the web client and the tables they use
    sub,      \* SubscriptionService calls and the payments and profiles tables
    audio,    \* the AudioService instance and its audio element
    bsvc      \* beatService.recordDownload calls and the downloads table

pipeVars == <<pc, kind, req, loc, resp, trace, log, stage, fsDirs, fsFiles, store, now, got>>
appVars == <<dl, sub, audio, bsvc>>
vars == <<pc, kind, req, loc, resp, trace, log, stage, fsDirs, fsFiles, store, now, got,
          dl, sub, audio, bsvc>>

Stages == <<"sign", "fetch", "transcode", "publish">>
StageNames == {"sign", "fetch", "transcode", "publish"}

NoReq == [method |-> "none", env |-> [url |-> Undef, key |-> Undef],
          body |-> NoBody, argv |-> <<>>]
\* no signing request made yet; from(bucket).createSignedUrl(path, ttl)
NoSignReq == [bucket |-> Undef, path |-> Undef, ttl |-> 0]
SignRequest(sb, sp) == [bucket |-> sb, path |-> sp, ttl |-> 60]
\* signReq is the signing request made, getUrl the URL handed to fetch()
NoLoc == [sourceBucket |-> Undef, sourcePath |-> Undef, destBucket |-> Undef,
          destPath |-> Undef, signedUrl |-> Undef, tmpDir |-> 0, ext |-> <<>>,
          finalDestPath |-> Undef, signReq |-> NoSignReq, getUrl |-> Undef]
NoResp == [code |-> -1, text |-> "", publicUrl |-> Undef, path |-> Undef]
\* the tool probe precedes the four stages
NoStage == [s \in StageNames \cup {"probe"} |-> "idle"]

\* ------------------------------------------------ download permission
\* DownloadService (canUserDownload, getUserDownloadStats, recordDownload)
\* as the download modal drives it for one signed-in user.
Flows == 1..NumFlows
Plans == {"Basic", "Pro"}
Formats == {"mp3", "wav"}

\* getMaxDownloads: Infinity is written -1
GetMaxDownloads(plan) ==
    IF plan = "Basic" THEN 30 ELSE IF plan \in {"Pro", "Exclusive"} THEN -1 ELSE 0
IsInfinity(n) == n < 0
\* getPlanLevel
GetPlanLevel(plan) ==
    IF plan = "Basic" THEN 1 ELSE IF plan = "Pro" THEN 2
    ELSE IF plan = "Exclusive" THEN 3 ELSE 0
\* canDownloadFormat
CanDownloadFormat(plan, format) ==
    IF plan = "Basic" THEN format = "mp3"
    ELSE IF plan = "Pro" THEN format \in {"mp3", "wav"}
    ELSE plan = "Exclusive"
\* const remaining = Math.max(0, maxDownloads - used)
Remaining(plan, used) ==
    IF IsInfinity(GetMaxDownloads(plan)) THEN -1
    ELSE IF GetMaxDownloads(plan) - used > 0 THEN GetMaxDownloads(plan) - used ELSE 0
\* mutant: the limit is looked at one download too late
LimitReached_OffByOne(plan, used) ==
    /\ ~IsInfinity(GetMaxDownloads(plan))
    /\ used > GetMaxDownloads(plan)
\* if (stats.remaining <= 0 && stats.maxDownloads !== Infinity)
LimitReached(plan, used) ==
    /\ Remaining(plan, used) <= 0
    /\ ~IsInfinity(GetMaxDownloads(plan))

\* a flow: the format picked, the beat's licence tier, where the flow
\* stands, the permission it was given and what the modal shows at the end
NoFlow == [pc |-> "idle", format |-> "none", tier |-> "none", plan |-> "none",
           allowed |-> FALSE, reason |-> "", remaining |-> 0]
\* plan and count are the profile row's plan_tier and
\* download_count_this_month, rows the user's rows in downloads this month
DlIdle == [plan |-> "Basic", count |-> 0, rows |-> 0, flow |-> [f \in Flows |-> NoFlow]]

\* ------------------------------------------------ subscription service
PlanTiers == {"Basic", "Pro", "Exclusive"}
\* SubscriptionService.getPlanLevel: levels[plan]
GetPlanLevelSub(plan) ==
    IF plan = "Basic" THEN 1 ELSE IF plan = "Pro" THEN 2 ELSE 3
NoUpgrade ==
    [pc |-> "idle", newPlan |-> "none", cur |-> "none", before |-> "none",
     wrote |-> FALSE, result |-> "none", message |-> ""]
NoSnapshot == [plan |-> "none", status |-> "none", count |-> 0, rows |-> 0]
SubIdle ==
    [exists |-> TRUE, plan |-> "Basic", status |-> "none", count |-> 0,
     payments |-> <<>>, logs |-> 0, event |-> "none", delivered |-> 0,
     after1 |-> NoSnapshot, up |-> NoUpgrade]

\* ------------------------------------------------------- audio service
RetryCount == 2
Urls == {<<"https:", "a">>, <<"https:", "b">>, <<"blob:", "c">>}
StartsWithBlob(url) == Len(url) > 0 /\ url[1] = "blob:"
AudioIdle ==
    [element |-> TRUE, currentUrl |-> <<>>, src |-> <<>>, isLoading |-> FALSE,
     isPlaying |-> FALSE, error |-> "null", pc |-> "idle", url |-> <<>>,
     attempt |-> 0, result |-> "none", loads |-> 0, loadedFor |-> <<>>]

\* -------------------------------------------------------- beat service
MaxRetries == 3
BeatIdle ==
    [pc |-> "idle", format |-> "none", attempts |-> 0, inserts |-> 0,
     wrote |-> 0, result |-> "none", calls |-> 0, rows |-> 0,
     download_count |-> [x \in Formats |-> 0]]

InitPipeline ==
    /\ pc = [i \in Inv |-> "idle"]
    /\ kind = [i \in Inv |-> "none"]
    /\ req = [i \in Inv |-> NoReq]
    /\ loc = [i \in Inv |-> NoLoc]
    /\ resp = [i \in Inv |-> NoResp]
    /\ trace = [i \in Inv |-> <<>>]
    /\ log = [i \in Inv |-> <<>>]
    /\ stage = [i \in Inv |-> NoStage]
    /\ fsDirs = {}
    /\ fsFiles = {}
    /\ store = {}
    /\ now = 0
    /\ got = [i \in Inv |-> <<>>]

Init ==
    /\ InitPipeline
    /\ dl = DlIdle
    /\ sub = SubIdle
    /\ audio = AudioIdle
    /\ bsvc = BeatIdle

\* an invocation is in flight from its start until its result was collected
Live(i) == pc[i] \notin {"idle", "retired"}

\* invocations run one after the other, in the order of their numbers
MayStart(i) == pc[i] = "idle" /\ \A j \in 1..(i - 1) : pc[j] = "retired"

\* ------------------------------------------------------- shared helpers
Call(i, ops) == trace' = [trace EXCEPT ![i] = @ \o ops]
Console(i, stream, text, arg) ==
    log' = [log EXCEPT ![i] = Append(@, [stream |-> stream, text |-> text, arg |-> arg])]
SetStage(i, s, v) == stage' = [stage EXCEPT ![i][s] = v]
Goto(i, l) == pc' = [pc EXCEPT ![i] = l]
Got(i, rs) == got' = [got EXCEPT ![i] = @ \o rs]

\* return new Response(text, { status: code })  /  process.exit(code)
Reply(i, code, text) ==
    /\ resp' = [resp EXCEPT ![i] = [NoResp EXCEPT !.code = code, !.text = text]]
    /\ Goto(i, "done")

\* a signed URL kept from the first invocation and handed to all
SignedUrl_Cached(i) ==
    Str(ToStr(req[i].env.url) \o <<"/", "object", "/", "sign", "/">>
        \o ToStr(loc[i].sourceBucket) \o <<"/">> \o ToStr(loc[i].sourcePath)
        \o <<"?token=">> \o Dec(1))
\* the createSignedUrl(path, 60) answer: a URL of the project carrying the
\* token the store made for this request
SignedUrl(i) ==
    Str(ToStr(req[i].env.url) \o <<"/", "object", "/", "sign", "/">>
        \o ToStr(loc[i].sourceBucket) \o <<"/">> \o ToStr(loc[i].sourcePath)
        \o <<"?token=">> \o Dec(i))

\* bytes of the source object, of the preview made from them, and of an
\* output the encoder left unfinished
SourceData(i) == [of |-> "source", inv |-> i]
PreviewData(i) == [of |-> "preview", inv |-> i]
PartialData(i) == [of |-> "partial", inv |-> i]

File(d, name, data) == [dir |-> d, name |-> name, data |-> data]

\* fs.writeFileSync / the encoder's -y : create or replace the file
WriteFile(files, d, name, data) ==
    {f \in files : ~(f.dir = d /\ f.name = name)} \cup {File(d, name, data)}

\* upload(key, body, { upsert: true }) accepted by the store: create the
\* object or replace the one under the same bucket and key
\* the objects stored under bucket b and key k
At(objs, b, k) == {o \in objs : o.bucket = b /\ o.key = k}
\* how often the key has been written: 0 when nothing is stored under it
Rev(objs, b, k) ==
    IF At(objs, b, k) = {} THEN 0
    ELSE CHOOSE n \in {o.rev : o \in At(objs, b, k)} :
             \A o \in At(objs, b, k) : o.rev <= n
StoredObject(objs, b, k, data, ctype) ==
    [bucket |-> b, key |-> k, data |-> data, contentType |-> ctype,
     rev |-> Rev(objs, b, k) + 1]
\* a store that keeps the old object next to the new one
Upsert_Append(objs, b, k, data, ctype) ==
    objs \cup {StoredObject(objs, b, k, data, ctype)}
Upsert(objs, b, k, data, ctype) ==
    (objs \ At(objs, b, k)) \cup {StoredObject(objs, b, k, data, ctype)}

\* console.error(msg, arg) followed by the reply; calls are the external
\* calls made on the way
Abort(i, code, text, msg, arg, calls) ==
    /\ Reply(i, code, text)
    /\ Console(i, "stderr", msg, arg)
    /\ Call(i, calls)

\* outcomes of the external collaborators
ProbeOutcomes == {"ok", "nonzero", "error"}       \* spawnSync('ffmpeg', ['-version'])
SignOutcomes == {"ok", "error", "nourl", "throw"} \* createSignedUrl
FetchOutcomes == {"ok", "notok", "throw"}         \* fetch(signedUrl)
BufferOutcomes == {"ok", "throw"}                 \* res.arrayBuffer()
WriteOutcomes == {"ok", "throw"}                  \* fs.writeFileSync
EncodeOutcomes == {"ok", "nonzero", "nonzero-partial", "error"}  \* spawnSync ffmpeg
UploadOutcomes == {"ok", "error", "throw"}        \* upload
RemoveOutcomes == {"ok", "throw"}                 \* fs.rmSync
MkdirOutcomes == {"ok", "throw"}                  \* fs.mkdtempSync

\* what really happened, for the stage record
Outcome(r) == IF r = "ok" THEN "ok" ELSE "fail"
\* the fetch stage is over once the input file is written
Fetching(r) == IF r = "ok" THEN "run" ELSE "fail"
Fetched(was) == IF was = "run" THEN "ok" ELSE was
\* the tool is invocable unless spawning it fails
ProbeOutcome(p) == IF p = "error" THEN "fail" ELSE "ok"

\* mutant: the method is never looked at
MethodAllowed_Any(m) == TRUE
\* if (req.method !== 'POST')
MethodAllowed(m) == m = "POST"
\* mutant: only the endpoint is required
EnvMissing_UrlOnly(e) == ~Truthy(e.url)
\* if (!SUPABASE_URL || !SUPABASE_SERVICE_ROLE_KEY)
EnvMissing(e) == ~Truthy(e.url) \/ ~Truthy(e.key)
\* mutant: only the bucket is required
\* a caller that does not look at the source bucket and key at all
SourceMissing_Never(sb, sp) == FALSE
SourceMissing_BucketOnly(sb, sp) == ~Truthy(sb)
\* if (!sourceBucket || !sourcePath)
SourceMissing(sb, sp) == ~Truthy(sb) \/ ~Truthy(sp)
\* mutants: the probe result is ignored / its exit status is tested instead
ProbeFailed_Never(p) == FALSE
ProbeFailed_Status(p) == p = "nonzero"
\* if (ffCheck.error)
ProbeFailed(p) == p = "error"
\* mutant: a missing signedUrl goes unnoticed
\* a caller that never looks at what signing came back with
SignFailed_Never(r) == FALSE
SignFailed_ErrorOnly(r) == r = "error"
\* if (signedErr || !signed?.signedUrl)
SignFailed(r) == r \in {"error", "nourl"}
\* if (!res.ok)
FetchFailed(r) == r = "notok"
\* mutant: the exit status goes unchecked
EncodeFailed_ErrorOnly(r) == r = "error"
\* if (ff.error || ff.status !== 0)
EncodeFailed(r) == r # "ok"
\* if (uploadError)
UploadFailed(r) == r = "error"

\* fs.mkdtempSync(path.join(os.tmpdir(), 'preview-')): a directory whose name
\* no existing directory has.  Names are interchangeable, so the least unused
\* one stands for whichever random suffix the primitive picks; with no room
\* left the call can only throw.
FreeDirs == DirNames \ fsDirs
\* a scratch directory with one fixed name
NewDir_Fixed == CHOOSE d \in DirNames : \A e \in DirNames : d <= e
NewDir == CHOOSE d \in FreeDirs : \A e \in FreeDirs : d <= e

HasFile(d, name) == \E f \in fsFiles : f.dir = d /\ f.name = name
\* bytes of file name in directory d
FileData(d, name) == (CHOOSE f \in fsFiles : f.dir = d /\ f.name = name).data

\* what the encoder leaves in the scratch directory
Encoded(files, i, d, e) ==
    IF e = "ok" THEN WriteFile(files, d, OutputName, PreviewData(i))
    ELSE IF e = "nonzero-partial" THEN WriteFile(files, d, OutputName, PartialData(i))
    ELSE files

\* what upload(key, createReadStream(outputPath), { upsert: true }) comes
\* back with: the stream fails without a file to read, the store refuses a
\* bucket it does not have
UploadResult(u, b, d) ==
    IF ~HasFile(d, OutputName) THEN "throw"
    ELSE IF u = "ok" /\ ToStr(b) \notin KnownBuckets THEN "error"
    ELSE u

\* a store that refuses to replace: the first writer of a key wins
Uploaded_FirstWins(r, b, k, d) ==
    IF r = "ok" /\ At(store, ToStr(b), ToStr(k)) = {}
    THEN Upsert(store, ToStr(b), ToStr(k), FileData(d, OutputName), DefaultContentType)
    ELSE store
\* the store after the upload of invocation i came back with r
Uploaded(r, b, k, d) ==
    IF r = "ok"
    THEN Upsert(store, ToStr(b), ToStr(k), FileData(d, OutputName), DefaultContentType)
    ELSE store

\* fs.rmSync(tmpDir, { recursive: true })
RemoveDir(d) ==
    /\ fsDirs' = fsDirs \ {d}
    /\ fsFiles' = {f \in fsFiles : f.dir # d}

\* try { fs.rmSync(...) } catch (e) { /* ignore */ }
Cleanup(d, rm) == IF rm = "ok" THEN RemoveDir(d) ELSE UNCHANGED <<fsDirs, fsFiles>>

\* ------------------------------------------------- request handler steps
\* catch (error) { console.error(...); return new Response(..., 500) }
\* a catch block that throws the error on to the caller of the handler
HCatch_Rethrow(i, err, calls) ==
    Abort(i, -1, "uncaught", "Error generating preview:", <<err>>, calls)
\* a catch block that prints the URL it was downloading from
HCatch_LogUrl(i, err, calls) ==
    Abort(i, 500, "Error generating preview", "Error generating preview:",
          ToStr(loc[i].signedUrl), calls)
\* a catch block that answers 200 all the same
HCatch_Swallow(i, err, calls) ==
    Abort(i, 200, "json", "Error generating preview:", <<err>>, calls)
HCatch(i, err, calls) ==
    Abort(i, 500, "Error generating preview", "Error generating preview:", <<err>>, calls)

\* mutant: the reply names the requested key, not the one uploaded under
HSuccess_DestPath(i) ==
    [code |-> 200, text |-> "json",
     publicUrl |-> Str(PublicUrl(req[i].env.url, loc[i].destBucket, loc[i].finalDestPath)),
     path |-> loc[i].destPath]
\* JSON.stringify({ publicUrl: public?.publicUrl, path: finalDestPath }), 200
HSuccess(i) ==
    [code |-> 200, text |-> "json",
     publicUrl |-> Str(PublicUrl(req[i].env.url, loc[i].destBucket, loc[i].finalDestPath)),
     path |-> loc[i].finalDestPath]

\* lines 7-18: method check, environment check, await req.json()
HStartOn(i, m, e, b) ==
    /\ pc[i] = "idle"
    /\ kind' = [kind EXCEPT ![i] = "handler"]
    /\ req' = [req EXCEPT ![i] = [NoReq EXCEPT !.method = m, !.env = e, !.body = b]]
    /\ IF ~MethodAllowed(m)
       THEN Reply(i, 405, "Method Not Allowed") /\ UNCHANGED <<trace, log>>
       ELSE IF EnvMissing(e)
       THEN Abort(i, 500, "Server misconfigured",
                  "Missing SUPABASE_URL or SUPABASE_SERVICE_ROLE_KEY", <<>>, <<"env">>)
       ELSE Call(i, <<"env", "json">>) /\ Goto(i, "h_json") /\ UNCHANGED <<resp, log>>
    /\ UNCHANGED <<loc, stage, fsDirs, fsFiles, store, now, got>>
    /\ UNCHANGED appVars

HStart(i) ==
    /\ MayStart(i)
    /\ \E m \in Methods, e \in Envs, b \in Bodies : HStartOn(i, m, e, b)

\* lines 18-36: body checks, tool probe, client, createSignedUrl issued
HBodyOn(i, p) ==
    /\ pc[i] = "h_json"
    /\ LET b == req[i].body IN
       IF b.json # "object"
       THEN /\ Reply(i, 400, "Bad request")
            /\ UNCHANGED <<loc, trace, log, stage, got>>
       ELSE
         /\ loc' = [loc EXCEPT ![i] =
                [NoLoc EXCEPT !.sourceBucket = b.sourceBucket,
                              !.sourcePath = b.sourcePath,
                              !.destBucket = IF b.destBucket = Undef
                                             THEN DefaultDestBucket ELSE b.destBucket,
                              !.destPath = b.destPath,
                              !.signReq =
                                  IF SourceMissing(b.sourceBucket, b.sourcePath)
                                     \/ ProbeFailed(p)
                                  THEN NoSignReq
                                  ELSE SignRequest(b.sourceBucket, b.sourcePath)]]
         /\ IF SourceMissing(b.sourceBucket, b.sourcePath)
            THEN /\ Reply(i, 400, "Missing sourceBucket or sourcePath")
                 /\ UNCHANGED <<trace, log, stage, got>>
            ELSE /\ Got(i, <<ProbeOutcome(p)>>)
                 /\ IF ProbeFailed(p)
                    THEN /\ Abort(i, 501, "ffmpeg not available on server",
                                  "ffmpeg not found on PATH", <<>>, <<"probe">>)
                         /\ SetStage(i, "probe", ProbeOutcome(p))
                    ELSE /\ Call(i, <<"probe", "createClient", "sign">>)
                         /\ stage' = [stage EXCEPT ![i]["probe"] = ProbeOutcome(p),
                                                   ![i]["sign"] = "run"]
                         /\ Goto(i, "h_sign")
                         /\ UNCHANGED <<resp, log>>
    /\ UNCHANGED <<kind, req, fsDirs, fsFiles, store, now>>
    /\ UNCHANGED appVars

HBody(i) == \E p \in ProbeOutcomes : HBodyOn(i, p)

\* lines 36-43: signing answered, fetch(signedUrl) issued
\* a handler that asks for the signed URL once more when signing fails
HSignedOn_Retry(i, r) ==
    /\ pc[i] = "h_sign"
    /\ Got(i, <<r>>)
    /\ IF r = "ok"
       THEN /\ loc' = [loc EXCEPT ![i].signedUrl = SignedUrl(i),
                                      ![i].getUrl = SignedUrl(i)]
            /\ Call(i, <<"get">>)
            /\ stage' = [stage EXCEPT ![i]["sign"] = "ok", ![i]["fetch"] = "run"]
            /\ Goto(i, "h_fetch")
            /\ UNCHANGED <<resp, log>>
       ELSE IF Len(SelectSeq(trace[i], LAMBDA op : op = "sign")) < 2
       THEN /\ Call(i, <<"sign">>)
            /\ UNCHANGED <<pc, loc, resp, log, stage>>
       ELSE /\ HCatch(i, "sign rejected", <<>>)
            /\ SetStage(i, "sign", "fail")
            /\ UNCHANGED loc
    /\ UNCHANGED <<kind, req, fsDirs, fsFiles, store, now>>
    /\ UNCHANGED appVars
HSignedOn(i, r) ==
    /\ pc[i] = "h_sign"
    /\ Got(i, <<r>>)
    /\   IF r = "throw"
         THEN /\ HCatch(i, "sign rejected", <<>>)
              /\ SetStage(i, "sign", Outcome(r))
              /\ UNCHANGED loc
         ELSE IF SignFailed(r)
         THEN /\ Abort(i, 500, "Could not access source object",
                       "Failed to create signed URL:", <<r>>, <<>>)
              /\ SetStage(i, "sign", Outcome(r))
              /\ UNCHANGED loc
         ELSE /\ loc' = [loc EXCEPT ![i].signedUrl = SignedUrl(i),
                                      ![i].getUrl = SignedUrl(i)]
              /\ Call(i, <<"get">>)
              /\ stage' = [stage EXCEPT ![i]["sign"] = Outcome(r), ![i]["fetch"] = "run"]
              /\ Goto(i, "h_fetch")
              /\ UNCHANGED <<resp, log>>
    /\ UNCHANGED <<kind, req, fsDirs, fsFiles, store, now>>
    /\ UNCHANGED appVars

HSigned(i) == \E r \in SignOutcomes : HSignedOn(i, r)

\* lines 43-54: response status, scratch directory, extension,
\* await res.arrayBuffer()
HFetchedOn(i, r, m) ==
    /\ pc[i] = "h_fetch"
    /\ m = "ok" => FreeDirs # {}
    /\   IF r = "throw"
         THEN /\ HCatch(i, "fetch rejected", <<>>)
              /\ SetStage(i, "fetch", "fail")
              /\ Got(i, <<r>>)
              /\ UNCHANGED <<loc, fsDirs>>
         ELSE IF FetchFailed(r)
         THEN /\ Abort(i, 500, "Failed to download source",
                       "Failed to download source file", <<>>, <<>>)
              /\ SetStage(i, "fetch", "fail")
              /\ Got(i, <<r>>)
              /\ UNCHANGED <<loc, fsDirs>>
         ELSE IF m = "throw"
         THEN    /\ HCatch(i, "mkdtemp failed", <<"mkdtemp">>)
                 /\ SetStage(i, "fetch", "fail")
                 /\ Got(i, <<r, m>>)
                 /\ UNCHANGED <<loc, fsDirs>>
         ELSE    LET d == NewDir IN
                 /\ Got(i, <<r, m>>)
                 /\ fsDirs' = fsDirs \cup {d}
                 /\ IF ExtNameThrows(loc[i].sourcePath)
                    THEN /\ HCatch(i, "TypeError", <<"mkdtemp">>)
                         /\ SetStage(i, "fetch", "fail")
                         /\ loc' = [loc EXCEPT ![i].tmpDir = d]
                    ELSE /\ loc' = [loc EXCEPT ![i].tmpDir = d,
                                               ![i].ext = ExtOrDefault(loc[i].sourcePath)]
                         /\ Call(i, <<"mkdtemp", "arrayBuffer">>)
                         /\ SetStage(i, "fetch", Fetching(r))
                         /\ Goto(i, "h_buffer")
                         /\ UNCHANGED <<resp, log>>
    /\ UNCHANGED <<kind, req, fsFiles, store, now>>
    /\ UNCHANGED appVars

HFetched(i) == \E r \in FetchOutcomes, m \in MkdirOutcomes : HFetchedOn(i, r, m)

\* lines 54-68: body buffered, input written, encoder run, upload issued
HBufferedOn(i, r, w, e) ==
    /\ pc[i] = "h_buffer"
    /\ LET d == loc[i].tmpDir
           withInput == WriteFile(fsFiles, d, InputName(loc[i].ext), SourceData(i))
       IN
         IF r = "throw"
         THEN /\ HCatch(i, "body read failed", <<>>)
              /\ SetStage(i, "fetch", "fail")
              /\ Got(i, <<r>>)
              /\ UNCHANGED <<loc, fsFiles, now>>
         ELSE IF w = "throw"
         THEN /\ HCatch(i, "write failed", <<"write">>)
              /\ SetStage(i, "fetch", "fail")
              /\ Got(i, <<r, w>>)
              /\ UNCHANGED <<loc, fsFiles, now>>
         ELSE
           /\ Got(i, <<r, w, e>>)
           /\ fsFiles' = Encoded(withInput, i, d, e)
           /\ IF EncodeFailed(e)
              THEN /\ Abort(i, 500, "ffmpeg processing failed", "ffmpeg failed:", <<e>>,
                            <<"write", "ffmpeg">>)
                   /\ stage' = [stage EXCEPT ![i]["fetch"] = Fetched(@),
                                             ![i]["transcode"] = Outcome(e)]
                   /\ UNCHANGED <<loc, now>>
              ELSE /\ IF Truthy(loc[i].destPath)
                      THEN /\ loc' = [loc EXCEPT ![i].finalDestPath = loc[i].destPath]
                           /\ UNCHANGED now
                      ELSE \E t \in now..MaxClock :
                           /\ now' = t
                           /\ loc' = [loc EXCEPT ![i].finalDestPath = GeneratedKey(t)]
                   /\ Call(i, <<"write", "ffmpeg", "upload">>)
                   /\ stage' = [stage EXCEPT ![i]["fetch"] = Fetched(@),
                                             ![i]["transcode"] = Outcome(e),
                                             ![i]["publish"] = "run"]
                   /\ Goto(i, "h_upload")
                   /\ UNCHANGED <<resp, log>>
    /\ UNCHANGED <<kind, req, fsDirs, store>>
    /\ UNCHANGED appVars

HBuffered(i) ==
    \E r \in BufferOutcomes, w \in WriteOutcomes, e \in EncodeOutcomes :
        HBufferedOn(i, r, w, e)

\* lines 68-79: upload answered, public URL, cleanup, 200
HUploadedOn(i, u, rm) ==
    /\ pc[i] = "h_upload"
    /\ LET d == loc[i].tmpDir
           r == UploadResult(u, loc[i].destBucket, d)
       IN
         /\ store' = Uploaded(r, loc[i].destBucket, loc[i].finalDestPath, d)
         /\ SetStage(i, "publish", Outcome(r))
         /\ IF r = "throw"
            THEN /\ HCatch(i, "upload rejected", <<>>)
                 /\ Got(i, <<r>>)
                 /\ UNCHANGED <<fsDirs, fsFiles>>
            ELSE IF UploadFailed(r)
            THEN /\ Abort(i, 500, "Failed to upload preview", "Upload error:",
                          <<"error">>, <<>>)
                 /\ Got(i, <<r>>)
                 /\ UNCHANGED <<fsDirs, fsFiles>>
            ELSE /\ Cleanup(d, rm)
                 /\ Got(i, <<r, rm>>)
                 /\ Call(i, <<"publicUrl", "rm">>)
                 /\ resp' = [resp EXCEPT ![i] = HSuccess(i)]
                 /\ Goto(i, "done")
                 /\ UNCHANGED log
    /\ UNCHANGED <<kind, req, loc, now>>
    /\ UNCHANGED appVars

HUploaded(i) == \E u \in UploadOutcomes, rm \in RemoveOutcomes : HUploadedOn(i, u, rm)

\* the caller has taken the response / the exit status; the invocation's
\* own records are gone, what it left on the host and in the store stays
Retire(i) ==
    /\ pc[i] = "done"
    /\ pc' = [pc EXCEPT ![i] = "retired"]
    /\ kind' = [kind EXCEPT ![i] = "none"]
    /\ req' = [req EXCEPT ![i] = NoReq]
    /\ loc' = [loc EXCEPT ![i] = NoLoc]
    /\ resp' = [resp EXCEPT ![i] = NoResp]
    /\ trace' = [trace EXCEPT ![i] = <<>>]
    /\ log' = [log EXCEPT ![i] = <<>>]
    /\ stage' = [stage EXCEPT ![i] = NoStage]
    /\ got' = [got EXCEPT ![i] = <<>>]
    /\ UNCHANGED <<fsDirs, fsFiles, store, now>>
    /\ UNCHANGED appVars

\* ------------------------------------------------------------ CLI steps
\* mutant: pipeline failures exit with the usage code
CCatch_Exit2(i, err, calls) ==
    Abort(i, 2, "", "Error generating preview:", <<err>>, calls)
\* catch (error) { console.error(...); process.exit(1) }
CCatch(i, err, calls) ==
    Abort(i, 1, "", "Error generating preview:", <<err>>, calls)

Say(l, text, arg) == Append(l, [stream |-> "stdout", text |-> text, arg |-> arg])

\* console.log('Preview uploaded successfully!'); console.log('Public URL:', ...)
CSuccessLog(i, l) ==
    Say(Say(l, "Preview uploaded successfully!", <<>>), "Public URL:",
        PublicUrl(req[i].env.url, loc[i].destBucket, loc[i].finalDestPath))

\* lines 409-440: arguments, environment, tool probe, client,
\* createSignedUrl issued
CStartOn(i, argv, e, t, p) ==
    /\ pc[i] = "idle"
    /\ LET args == ParseArgs(argv)
           clockRead == ~Truthy(args["dest"])
       IN
        /\ kind' = [kind EXCEPT ![i] = "cli"]
        /\ req' = [req EXCEPT ![i] = [NoReq EXCEPT !.env = e, !.argv = argv]]
        /\ clockRead \/ t = now
        /\ now' = t
        /\ loc' = [loc EXCEPT ![i] =
               [NoLoc EXCEPT !.sourceBucket = args["bucket"],
                             !.sourcePath = args["path"],
                             !.destBucket = Or(args["destBucket"], DefaultDestBucket),
                             !.destPath = Or(args["dest"], GeneratedKey(t)),
                             !.signReq =
                                 IF SourceMissing(args["bucket"], args["path"])
                                    \/ EnvMissing(e) \/ ProbeFailed(p)
                                 THEN NoSignReq
                                 ELSE SignRequest(args["bucket"], args["path"])]]
        /\ IF SourceMissing(args["bucket"], args["path"])
           THEN /\ Abort(i, 2, "", "ERROR: --bucket and --path are required", <<>>, <<>>)
                /\ UNCHANGED <<stage, got>>
           ELSE IF EnvMissing(e)
           THEN /\ Abort(i, 2, "",
                     "ERROR: SUPABASE_URL and SUPABASE_SERVICE_ROLE_KEY must be set in env",
                     <<>>, <<"env">>)
                /\ UNCHANGED <<stage, got>>
           ELSE IF ProbeFailed(p)
           THEN /\ Abort(i, 2, "", "ERROR: ffmpeg not found on PATH", <<>>,
                         <<"env", "probe">>)
                /\ SetStage(i, "probe", ProbeOutcome(p))
                /\ Got(i, <<ProbeOutcome(p)>>)
           ELSE /\ Call(i, <<"env", "probe", "createClient", "sign">>)
                /\ log' = [log EXCEPT ![i] =
                              Say(@, "Creating signed URL for source file...", <<>>)]
                /\ stage' = [stage EXCEPT ![i]["probe"] = ProbeOutcome(p),
                                          ![i]["sign"] = "run"]
                /\ Got(i, <<ProbeOutcome(p)>>)
                /\ Goto(i, "c_sign")
                /\ UNCHANGED resp
    /\ UNCHANGED <<fsDirs, fsFiles, store>>
    /\ UNCHANGED appVars

CStart(i) ==
    /\ MayStart(i)
    /\ \E argv \in Argvs, e \in Envs, t \in now..MaxClock, p \in ProbeOutcomes :
          CStartOn(i, argv, e, t, p)

\* lines 440-443: signing answered, fetch(signedUrl) issued
CSignedOn(i, r) ==
    /\ pc[i] = "c_sign"
    /\ Got(i, <<r>>)
    /\   IF r = "throw" \/ SignFailed(r)
         THEN /\ CCatch(i, r, <<>>)
              /\ SetStage(i, "sign", Outcome(r))
              /\ UNCHANGED loc
         ELSE /\ loc' = [loc EXCEPT ![i].signedUrl = SignedUrl(i),
                                      ![i].getUrl = SignedUrl(i)]
              /\ Call(i, <<"get">>)
              /\ stage' = [stage EXCEPT ![i]["sign"] = Outcome(r), ![i]["fetch"] = "run"]
              /\ Goto(i, "c_fetch")
              /\ UNCHANGED <<resp, log>>
    /\ UNCHANGED <<kind, req, fsDirs, fsFiles, store, now>>
    /\ UNCHANGED appVars

CSigned(i) == \E r \in SignOutcomes : CSignedOn(i, r)

\* lines 443-451: response status, scratch directory, extension,
\* await response.arrayBuffer()
CFetchedOn(i, r, m) ==
    /\ pc[i] = "c_fetch"
    /\ m = "ok" => FreeDirs # {}
    /\   IF r = "throw" \/ FetchFailed(r)
         THEN /\ CCatch(i, r, <<>>)
              /\ SetStage(i, "fetch", "fail")
              /\ Got(i, <<r>>)
              /\ UNCHANGED <<loc, fsDirs>>
         ELSE IF m = "throw"
         THEN    /\ CCatch(i, "mkdtemp failed", <<"mkdtemp">>)
                 /\ SetStage(i, "fetch", "fail")
                 /\ Got(i, <<r, m>>)
                 /\ UNCHANGED <<loc, fsDirs>>
         ELSE    LET d == NewDir IN
                 /\ Got(i, <<r, m>>)
                 /\ fsDirs' = fsDirs \cup {d}
                 /\ IF ExtNameThrows(loc[i].sourcePath)
                    THEN /\ CCatch(i, "TypeError", <<"mkdtemp">>)
                         /\ SetStage(i, "fetch", "fail")
                         /\ loc' = [loc EXCEPT ![i].tmpDir = d]
                    ELSE /\ loc' = [loc EXCEPT ![i].tmpDir = d,
                                               ![i].ext = ExtOrDefault(loc[i].sourcePath)]
                         /\ Call(i, <<"mkdtemp", "arrayBuffer">>)
                         /\ SetStage(i, "fetch", Fetching(r))
                         /\ Goto(i, "c_buffer")
                         /\ UNCHANGED <<resp, log>>
    /\ UNCHANGED <<kind, req, fsFiles, store, now>>
    /\ UNCHANGED appVars

CFetched(i) == \E r \in FetchOutcomes, m \in MkdirOutcomes : CFetchedOn(i, r, m)

\* lines 451-463: body buffered, input written, encoder run, upload issued
CBufferedOn(i, r, w, e) ==
    /\ pc[i] = "c_buffer"
    /\ LET d == loc[i].tmpDir
           withInput == WriteFile(fsFiles, d, InputName(loc[i].ext), SourceData(i))
           running == Say(log[i], "Running ffmpeg to create 30s preview...", <<>>)
       IN
         IF r = "throw"
         THEN /\ CCatch(i, "body read failed", <<>>)
              /\ SetStage(i, "fetch", "fail")
              /\ Got(i, <<r>>)
              /\ UNCHANGED <<loc, fsFiles>>
         ELSE IF w = "throw"
         THEN /\ CCatch(i, "write failed", <<"write">>)
              /\ SetStage(i, "fetch", "fail")
              /\ Got(i, <<r, w>>)
              /\ UNCHANGED <<loc, fsFiles>>
         ELSE
           /\ Got(i, <<r, w, e>>)
           /\ fsFiles' = Encoded(withInput, i, d, e)
           /\ loc' = [loc EXCEPT ![i].finalDestPath = loc[i].destPath]
           /\ IF EncodeFailed(e)
              THEN /\ Reply(i, 1, "")
                   /\ log' = [log EXCEPT ![i] =
                                 Append(running, [stream |-> "stderr",
                                                  text |-> "Error generating preview:",
                                                  arg |-> <<e>>])]
                   /\ Call(i, <<"write", "ffmpeg">>)
                   /\ stage' = [stage EXCEPT ![i]["fetch"] = Fetched(@),
                                             ![i]["transcode"] = Outcome(e)]
              ELSE /\ Call(i, <<"write", "ffmpeg", "upload">>)
                   /\ log' = [log EXCEPT ![i] =
                                 Say(running, "Uploading preview to Supabase storage...", <<>>)]
                   /\ stage' = [stage EXCEPT ![i]["fetch"] = Fetched(@),
                                             ![i]["transcode"] = Outcome(e),
                                             ![i]["publish"] = "run"]
                   /\ Goto(i, "c_upload")
                   /\ UNCHANGED resp
    /\ UNCHANGED <<kind, req, fsDirs, store, now>>
    /\ UNCHANGED appVars

CBuffered(i) ==
    \E r \in BufferOutcomes, w \in WriteOutcomes, e \in EncodeOutcomes :
        CBufferedOn(i, r, w, e)

\* lines 463-474: upload answered, public URL printed, cleanup, exit 0
CUploadedOn(i, u, rm) ==
    /\ pc[i] = "c_upload"
    /\ LET d == loc[i].tmpDir
           r == UploadResult(u, loc[i].destBucket, d)
       IN
         /\ store' = Uploaded(r, loc[i].destBucket, loc[i].finalDestPath, d)
         /\ SetStage(i, "publish", Outcome(r))
         /\ IF r = "throw" \/ UploadFailed(r)
            THEN /\ CCatch(i, "upload failed", <<>>)
                 /\ Got(i, <<r>>)
                 /\ UNCHANGED <<fsDirs, fsFiles>>
            ELSE /\ Cleanup(d, rm)
                 /\ Got(i, <<r, rm>>)
                 /\ Call(i, <<"publicUrl", "rm">>)
                 /\ log' = [log EXCEPT ![i] = CSuccessLog(i, @)]
                 /\ Reply(i, 0, "")
    /\ UNCHANGED <<kind, req, loc, now>>
    /\ UNCHANGED appVars

CUploaded(i) == \E u \in UploadOutcomes, rm \in RemoveOutcomes : CUploadedOn(i, u, rm)

Next ==
    \E i \in Inv :
        \/ HStart(i)
        \/ HBody(i)
        \/ HSigned(i)
        \/ HFetched(i)
        \/ HBuffered(i)
        \/ HUploaded(i)
        \/ CStart(i)
        \/ CSigned(i)
        \/ CFetched(i)
        \/ CBuffered(i)
        \/ CUploaded(i)
        \/ Retire(i)

Spec == Init /\ [][Next]_vars

\* ---------------------------------------------------------- progress
\* Every call an invocation waits for comes back or fails: the step that
\* takes the answer is eventually taken.
Continue(i) ==
    \/ HBody(i) \/ HSigned(i) \/ HFetched(i) \/ HBuffered(i) \/ HUploaded(i)
    \/ CSigned(i) \/ CFetched(i) \/ CBuffered(i) \/ CUploaded(i)

\* ------------------------------------------------ concurrent invocations
\* Requests served and commands run at the same time on one host against
\* one store: every await of one invocation lets the others run. The
\* callers are authorised and well-formed and publish to the default
\* bucket, with or without a destination key of their own.
GoodEnv == [url |-> ProjectUrl, key |-> ServiceKey]
ConcBodies ==
    {b \in Bodies : /\ b.json = "object"
                    /\ b.sourceBucket = Str(<<"beats">>)
                    /\ b.sourcePath = WavPath
                    /\ b.destBucket = Undef}
ConcArgvs ==
    {argv \in Argvs : /\ ParseArgs(argv)["bucket"].t = "string"
                      /\ ParseArgs(argv)["path"].t = "string"
                      /\ ParseArgs(argv)["destBucket"] = Undef}

\* invocations arrive in the order of their numbers, at any time
MayArrive(i) == pc[i] = "idle" /\ \A j \in 1..(i - 1) : pc[j] # "idle"

\* The tool is installed, signing, the download and the encoder work; the
\* creation of the scratch directory, the upload and the cleanup may fail.
HArrive(i) ==
    /\ MayArrive(i)
    /\ \E b \in ConcBodies : HStartOn(i, "POST", GoodEnv, b)
HProbed(i) == HBodyOn(i, "ok")
HSignedOk(i) == HSignedOn(i, "ok")
HFetchedOk(i) == \E m \in MkdirOutcomes : HFetchedOn(i, "ok", m)
HEncoded(i) == HBufferedOn(i, "ok", "ok", "ok")
HPublished(i) == \E u \in {"ok", "error"}, rm \in RemoveOutcomes : HUploadedOn(i, u, rm)

CArrive(i) ==
    /\ MayArrive(i)
    /\ \E argv \in ConcArgvs, t \in now..MaxClock : CStartOn(i, argv, GoodEnv, t, "ok")
CSignedOk(i) == CSignedOn(i, "ok")
CFetchedOk(i) == \E m \in MkdirOutcomes : CFetchedOn(i, "ok", m)
CEncoded(i) == CBufferedOn(i, "ok", "ok", "ok")
CPublished(i) == \E u \in {"ok", "error"}, rm \in RemoveOutcomes : CUploadedOn(i, u, rm)

NextConc ==
    \E i \in Inv :
        \/ HArrive(i)
        \/ HProbed(i)
        \/ HSignedOk(i)
        \/ HFetchedOk(i)
        \/ HEncoded(i)
        \/ HPublished(i)
        \/ CArrive(i)
        \/ CSignedOk(i)
        \/ CFetchedOk(i)
        \/ CEncoded(i)
        \/ CPublished(i)

SpecConc == Init /\ [][NextConc]_vars

\* ------------------------------------------- the two entry points paired
\* A request is served, then the command is run for the same source and
\* destination in the same environment. The values are those both entry
\* points can be given: a field or flag is absent or a non-empty string.
PairBodies ==
    {b \in Bodies : /\ b.json = "object"
                    /\ b.sourcePath # Str(<<>>)
                    /\ b.destBucket # Str(<<>>)}
Given(name, v) == IF v = Undef THEN <<>> ELSE <<Flag(name), Word(v)>>
\* the command line that names what body b names
ArgvOf(b) ==
    Given("bucket", b.sourceBucket) \o Given("path", b.sourcePath)
        \o Given("destBucket", b.destBucket) \o Given("dest", b.destPath)

\* slots 1, 3, ... take the request; the slot after each runs the command
HasPartner(i) == i % 2 = 1 /\ i + 1 \in Inv
PairFree(i) == \A j \in 1..(i - 1) : pc[j] = "done"

HFirst(i) ==
    /\ HasPartner(i) /\ PairFree(i)
    /\ \E e \in Envs, b \in PairBodies : HStartOn(i, "POST", e, b)

CSecond(i) ==
    /\ i % 2 = 0 /\ PairFree(i)
    /\ \E t \in now..MaxClock, p \in ProbeOutcomes :
          CStartOn(i, ArgvOf(req[i - 1].body), req[i - 1].env, t, p)

NextPair ==
    \E i \in Inv :
        \/ HFirst(i)
        \/ HBody(i)
        \/ HSigned(i)
        \/ HFetched(i)
        \/ HBuffered(i)
        \/ HUploaded(i)
        \/ CSecond(i)
        \/ CSigned(i)
        \/ CFetched(i)
        \/ CBuffered(i)
        \/ CUploaded(i)

SpecPair == Init /\ [][NextPair]_vars

\* ------------------------------------------- one run under two credentials
\* An invocation, then the same invocation again (same entry point, same
\* method, request or command line, same project) under another service key; the
\* store answers each signing request with a URL of its own.
OtherKey == Str(<<"service-role-key-2">>)
Rekeyed(e) == IF e.key = Undef THEN e ELSE [e EXCEPT !.key = OtherKey]

HOnce(i) ==
    /\ HasPartner(i) /\ PairFree(i)
    /\ \E m \in Methods, e \in Envs, b \in PairBodies : HStartOn(i, m, e, b)

COnce(i) ==
    /\ HasPartner(i) /\ PairFree(i)
    /\ \E argv \in Argvs, e \in Envs, t \in now..MaxClock, p \in ProbeOutcomes :
          CStartOn(i, argv, e, t, p)

HAgain(i) ==
    /\ i % 2 = 0 /\ PairFree(i) /\ kind[i - 1] = "handler"
    /\ HStartOn(i, req[i - 1].method, Rekeyed(req[i - 1].env), req[i - 1].body)

CAgain(i) ==
    /\ i % 2 = 0 /\ PairFree(i) /\ kind[i - 1] = "cli"
    /\ \E t \in now..MaxClock, p \in ProbeOutcomes :
          CStartOn(i, req[i - 1].argv, Rekeyed(req[i - 1].env), t, p)

NextTwin ==
    \E i \in Inv :
        \/ HOnce(i)
        \/ HAgain(i)
        \/ HBody(i)
        \/ HSigned(i)
        \/ HFetched(i)
        \/ HBuffered(i)
        \/ HUploaded(i)
        \/ COnce(i)
        \/ CAgain(i)
        \/ CSigned(i)
        \/ CFetched(i)
        \/ CBuffered(i)
        \/ CUploaded(i)

SpecTwin == Init /\ [][NextTwin]_vars

\* the same runs, each call answered in the end
SpecLive == Init /\ [][NextTwin]_vars /\ \A i \in Inv : WF_vars(Continue(i))

\* ------------------------------------------------------ download flows
\* Flows of one user run in browser tabs side by side; every await of one
\* flow lets the others run. The tables change only through these flows.

\* handleFormatSelect -> checkPermission -> canUserDownload: the profile
\* select answered, plan and format checks, getUserDownloadStats issued
DSelect(f) ==
    \E format \in Formats, tier \in Plans, read \in {"row", "none", "throw"} :
        /\ dl.flow[f].pc = "idle"
        /\ LET fl == [dl.flow[f] EXCEPT !.format = format, !.tier = tier, !.plan = dl.plan]
           IN
           IF read = "throw"
           THEN dl' = [dl EXCEPT !.flow[f] = [fl EXCEPT !.pc = "denied",
                                      !.reason = "System error checking download permissions"]]
           ELSE IF read = "none"
           THEN dl' = [dl EXCEPT !.flow[f] = [fl EXCEPT !.pc = "denied", !.reason = "User profile not found"]]
           ELSE IF GetPlanLevel(dl.plan) < GetPlanLevel(tier)
           THEN dl' = [dl EXCEPT !.flow[f] = [fl EXCEPT !.pc = "denied", !.reason = "plan too low for beat"]]
           ELSE IF ~CanDownloadFormat(dl.plan, format)
           THEN dl' = [dl EXCEPT !.flow[f] = [fl EXCEPT !.pc = "denied", !.reason = "plan too low for format"]]
           ELSE dl' = [dl EXCEPT !.flow[f] = [fl EXCEPT !.pc = "stats"]]
        /\ UNCHANGED <<pipeVars, sub, audio, bsvc>>

\* getUserDownloadStats answered: the limit check and the permission
DStats(f) ==
    \E read \in {"row", "none", "throw"} :
        /\ dl.flow[f].pc = "stats"
        /\ IF read # "row"
           THEN dl' = [dl EXCEPT !.flow[f] = [dl.flow[f] EXCEPT !.pc = "denied", !.reason = "Could not verify download limits"]]
           ELSE IF LimitReached(dl.plan, dl.count)
           THEN dl' = [dl EXCEPT !.flow[f] = [dl.flow[f] EXCEPT !.pc = "denied", !.reason = "Monthly download limit reached"]]
           ELSE dl' = [dl EXCEPT !.flow[f] = [dl.flow[f] EXCEPT !.pc = "selected", !.allowed = TRUE,
                                              !.remaining = Remaining(dl.plan, dl.count)]]
        /\ UNCHANGED <<pipeVars, sub, audio, bsvc>>

\* handleDownload -> recordDownload: the insert into downloads answered
DInsert(f) ==
    \E ins \in {"ok", "error", "throw"} :
        /\ dl.flow[f].pc = "selected"
        /\ IF ins = "ok"
           THEN dl' = [dl EXCEPT !.rows = @ + 1, !.flow[f].pc = "beat_rpc"]
           ELSE dl' = [dl EXCEPT !.flow[f] = [dl.flow[f] EXCEPT !.pc = "failed",
                                              !.reason = "Failed to record download"]]
        /\ UNCHANGED <<pipeVars, sub, audio, bsvc>>

\* rpc('increment_download') answered; its error is only logged
DBeatCounted(f) ==
    /\ dl.flow[f].pc = "beat_rpc"
    /\ \E r \in {"ok", "error", "throw"} :
          IF r = "throw"
          THEN dl' = [dl EXCEPT !.flow[f] = [dl.flow[f] EXCEPT !.pc = "failed",
                                             !.reason = "Failed to record download"]]
          ELSE dl' = [dl EXCEPT !.flow[f] = [dl.flow[f] EXCEPT !.pc = "user_rpc"]]
    /\ UNCHANGED <<pipeVars, sub, audio, bsvc>>

\* rpc('increment_user_download') answered; recordDownload returns true
DUserCounted(f) ==
    /\ dl.flow[f].pc = "user_rpc"
    /\ \E r \in {"ok", "error", "throw"} :
          IF r = "ok"
          THEN dl' = [dl EXCEPT !.count = @ + 1, !.flow[f].pc = "done"]
          ELSE IF r = "error"
          THEN dl' = [dl EXCEPT !.flow[f] = [dl.flow[f] EXCEPT !.pc = "done"]]
          ELSE dl' = [dl EXCEPT !.flow[f] = [dl.flow[f] EXCEPT !.pc = "failed",
                                             !.reason = "Failed to record download"]]
    /\ UNCHANGED <<pipeVars, sub, audio, bsvc>>

\* the user's month so far: any number of downloads up to the Basic limit,
\* each counted
InitDownloads ==
    /\ InitPipeline
    /\ \E plan \in Plans, used \in 0..GetMaxDownloads("Basic") :
          dl = [DlIdle EXCEPT !.plan = plan, !.count = used, !.rows = used]
    /\ sub = SubIdle
    /\ audio = AudioIdle
    /\ bsvc = BeatIdle

NextDownloads ==
    \E f \in Flows :
        \/ DSelect(f)
        \/ DStats(f)
        \/ DInsert(f)
        \/ DBeatCounted(f)
        \/ DUserCounted(f)

SpecDownloads == InitDownloads /\ [][NextDownloads]_vars

\* -------------------------------------------------- webhook deliveries
\* One charge.success event, delivered again after the previous delivery
\* has returned. The payment reference is the event's, the same each time.
Snapshot(s) ==
    [plan |-> s.plan, status |-> s.status, count |-> s.count,
     rows |-> Len(s.payments)]

\* upgradeUserPlan returns; handlePaymentWebhook returns { success: true }
UReturn(s, ok, message) ==
    sub' = [s EXCEPT !.up.pc = "idle",
                     !.up.result = IF ok THEN "success" ELSE "failure",
                     !.up.message = message,
                     !.delivered = @ + 1,
                     !.after1 = IF s.delivered = 0 THEN Snapshot(s) ELSE @]

\* handlePaymentWebhook, processSuccessfulCharge, the profile select issued
UDeliver ==
    /\ sub.up.pc = "idle"
    /\ sub.delivered < MaxDeliveries
    /\ IF sub.event = "none"
       THEN sub' = [sub EXCEPT !.delivered = @ + 1, !.up = NoUpgrade,
                               !.after1 = IF sub.delivered = 0 THEN Snapshot(sub) ELSE @]
       ELSE sub' = [sub EXCEPT !.up = [NoUpgrade EXCEPT !.pc = "u_select",
                                                       !.newPlan = sub.event,
                                                       !.before = sub.plan]]
    /\ UNCHANGED <<pipeVars, dl, audio, bsvc>>

\* the profile select answered; the upgrade is validated and the payment
\* insert issued
USelected ==
    \E read \in {"row", "error", "throw"} :
        /\ sub.up.pc = "u_select"
        /\ IF read = "throw"
           THEN UReturn(sub, FALSE, "Upgrade failed. Please contact support.")
           ELSE IF read = "error" \/ ~sub.exists
           THEN UReturn(sub, FALSE, "User not found")
           ELSE IF GetPlanLevelSub(sub.up.newPlan) <= GetPlanLevelSub(sub.plan)
           THEN UReturn(sub, FALSE, "You can only upgrade to a higher plan")
           ELSE sub' = [sub EXCEPT !.up.pc = "u_insert", !.up.cur = sub.plan]
        /\ UNCHANGED <<pipeVars, dl, audio, bsvc>>

\* the payments insert answered
UInserted ==
    \E ins \in {"ok", "error", "throw"} :
        /\ sub.up.pc = "u_insert"
        /\ IF ins = "throw"
           THEN UReturn(sub, FALSE, "Upgrade failed. Please contact support.")
           ELSE IF ins = "error"
           THEN UReturn(sub, FALSE, "Payment recording failed")
           ELSE sub' = [sub EXCEPT !.payments = Append(@, [plan |-> sub.up.newPlan,
                                                          status |-> "completed",
                                                          previous |-> sub.up.cur]),
                                   !.up.wrote = TRUE,
                                   !.up.pc = "u_update"]
        /\ UNCHANGED <<pipeVars, dl, audio, bsvc>>

\* the profile update answered
UUpdated ==
    \E upd \in {"ok", "error", "throw"} :
        /\ sub.up.pc = "u_update"
        /\ IF upd = "throw"
           THEN UReturn(sub, FALSE, "Upgrade failed. Please contact support.")
           ELSE IF upd = "error"
           THEN UReturn(sub, FALSE, "Plan update failed")
           ELSE sub' = [sub EXCEPT !.plan = sub.up.newPlan,
                                   !.status = "active",
                                   !.up.pc = IF sub.up.cur = "Basic" /\ sub.up.newPlan # "Basic"
                                             THEN "u_reset" ELSE "u_log"]
        /\ UNCHANGED <<pipeVars, dl, audio, bsvc>>

\* the download counter reset answered; its error is not looked at
UReset ==
    /\ sub.up.pc = "u_reset"
    /\ \E r \in {"ok", "error", "throw"} :
          IF r = "throw"
          THEN UReturn(sub, FALSE, "Upgrade failed. Please contact support.")
          ELSE sub' = [sub EXCEPT !.count = IF r = "ok" THEN 0 ELSE @,
                                  !.up.pc = "u_log"]
    /\ UNCHANGED <<pipeVars, dl, audio, bsvc>>

\* the subscription_logs insert answered, the email is logged, success
ULogged ==
    /\ sub.up.pc = "u_log"
    /\ \E r \in {"ok", "error", "throw"} :
          IF r = "throw"
          THEN UReturn(sub, FALSE, "Upgrade failed. Please contact support.")
          ELSE UReturn([sub EXCEPT !.logs = IF r = "ok" THEN @ + 1 ELSE @],
                       TRUE, "Successfully upgraded")
    /\ UNCHANGED <<pipeVars, dl, audio, bsvc>>

InitSub ==
    /\ InitPipeline
    /\ dl = DlIdle
    /\ \E exists \in BOOLEAN, plan \in PlanTiers, status \in {"none", "active"},
          used \in 0..MaxUsed, event \in PlanTiers \cup {"none"} :
          sub = [SubIdle EXCEPT !.exists = exists, !.plan = plan, !.status = status,
                                !.count = used, !.event = event]
    /\ audio = AudioIdle
    /\ bsvc = BeatIdle

NextSub ==
    \/ UDeliver
    \/ USelected
    \/ UInserted
    \/ UUpdated
    \/ UReset
    \/ ULogged

SpecSub == InitSub /\ [][NextSub]_vars

\* --------------------------------------------------------- audio loads
\* One AudioService; a loadAudio call is followed through its awaits, the
\* next call comes after it has returned. loadedFor is the URL whose
\* metadata the element has loaded since that URL became currentUrl.
AReturn(a, result) ==
    audio' = [a EXCEPT !.pc = "idle", !.result = result]

\* the element fires 'error': the listener attached in the constructor
OnError(a) ==
    [a EXCEPT !.error = "Failed to play audio", !.isLoading = FALSE,
              !.isPlaying = FALSE]

\* the catch block of one attempt
AttemptFailed(a) ==
    IF a.attempt = RetryCount
    THEN AReturn([a EXCEPT !.error = "Failed to load audio after multiple attempts",
                           !.isLoading = FALSE], "false")
    ELSE audio' = [a EXCEPT !.attempt = @ + 1,
                            !.pc = IF StartsWithBlob(a.url) THEN "a_meta" ELSE "a_head",
                            !.src = IF StartsWithBlob(a.url) THEN a.url ELSE @]

\* loadAudio(url) up to its first await
ALoad ==
    \E url \in Urls :
        /\ audio.pc = "idle"
        /\ audio.loads < MaxLoads
        /\ LET a == [audio EXCEPT !.loads = @ + 1, !.url = url, !.attempt = 0,
                                  !.result = "none"]
           IN
           IF ~a.element
           THEN AReturn(a, "false")
           ELSE IF a.currentUrl = url /\ a.src # <<>>
           THEN AReturn(a, "true")
           ELSE audio' = [a EXCEPT !.isPlaying = FALSE,
                                   !.currentUrl = url,
                                   !.isLoading = TRUE,
                                   !.error = "null",
                                   !.loadedFor = <<>>,
                                   !.pc = IF StartsWithBlob(url) THEN "a_meta" ELSE "a_head",
                                   !.src = IF StartsWithBlob(url) THEN url ELSE @]
        /\ UNCHANGED <<pipeVars, dl, sub, bsvc>>

\* the HEAD request answered
AHead ==
    \E head \in {"ok", "not_ok", "throw"} :
        /\ audio.pc = "a_head"
        /\ IF head = "not_ok"
           THEN IF audio.attempt = RetryCount
                THEN AReturn([audio EXCEPT !.error = "Audio file not accessible",
                                           !.isLoading = FALSE], "false")
                ELSE audio' = [audio EXCEPT !.attempt = @ + 1]
           ELSE audio' = [audio EXCEPT !.src = audio.url, !.pc = "a_meta"]
        /\ UNCHANGED <<pipeVars, dl, sub, bsvc>>

\* loadedmetadata, error or the 15 s timeout
AMeta ==
    \E meta \in {"loadedmetadata", "error", "timeout"} :
        /\ audio.pc = "a_meta"
        /\ IF meta = "loadedmetadata"
           THEN AReturn([audio EXCEPT !.isLoading = FALSE, !.loadedFor = audio.url], "true")
           ELSE IF meta = "error"
           THEN AttemptFailed(OnError(audio))
           ELSE AttemptFailed(audio)
        /\ UNCHANGED <<pipeVars, dl, sub, bsvc>>

\* play() on a loaded element, the 'play' event
APlay ==
    /\ audio.pc = "idle"
    /\ audio.element
    /\ audio.src # <<>>
    /\ ~audio.isPlaying
    /\ audio' = [audio EXCEPT !.isPlaying = TRUE]
    /\ UNCHANGED <<pipeVars, dl, sub, bsvc>>

\* cleanup()
ACleanup ==
    /\ audio.pc = "idle"
    /\ audio.element
    /\ audio' = [audio EXCEPT !.element = FALSE, !.src = <<>>, !.isPlaying = FALSE,
                              !.currentUrl = <<>>, !.isLoading = FALSE,
                              !.error = "null", !.loadedFor = <<>>]
    /\ UNCHANGED <<pipeVars, dl, sub, bsvc>>

InitAudio ==
    /\ InitPipeline
    /\ dl = DlIdle
    /\ sub = SubIdle
    /\ audio = AudioIdle
    /\ bsvc = BeatIdle

NextAudio ==
    \/ ALoad
    \/ AHead
    \/ AMeta
    \/ APlay
    \/ ACleanup

SpecAudio == InitAudio /\ [][NextAudio]_vars

\* ------------------------------------------- beatService.recordDownload
\* inserts and wrote count the insert requests and the rows of the call in
\* progress (or the last one); rows and download_count are the tables.
BReturn(b, result) == bsvc' = [b EXCEPT !.pc = "idle", !.result = result]

\* an attempt has failed: attempts++, give up at maxRetries, else wait and
\* issue the insert again
BRetry(b) ==
    IF b.attempts + 1 = MaxRetries
    THEN BReturn([b EXCEPT !.attempts = @ + 1], "false")
    ELSE bsvc' = [b EXCEPT !.attempts = @ + 1, !.inserts = @ + 1,
                           !.pc = "b_insert"]

\* recordDownload(beatId, userId, format) up to its first await
BRecord ==
    /\ bsvc.pc = "idle"
    /\ bsvc.calls < MaxCalls
    /\ \E format \in Formats :
          bsvc' = [bsvc EXCEPT !.pc = "b_insert", !.format = format,
                               !.attempts = 0, !.inserts = 1, !.wrote = 0,
                               !.result = "none", !.calls = @ + 1]
    /\ UNCHANGED <<pipeVars, dl, sub, audio>>

\* the downloads insert answered
BInserted ==
    \E ins \in {"ok", "error", "throw"} :
        /\ bsvc.pc = "b_insert"
        /\ IF ins = "ok"
           THEN bsvc' = [bsvc EXCEPT !.rows = @ + 1, !.wrote = @ + 1, !.pc = "b_rpc"]
           ELSE BRetry(bsvc)
        /\ UNCHANGED <<pipeVars, dl, sub, audio>>

\* rpc("increment_download") answered
BCounted ==
    \E rpc \in {"ok", "error", "throw"} :
        /\ bsvc.pc = "b_rpc"
        /\ IF rpc = "ok"
           THEN BReturn([bsvc EXCEPT !.download_count[bsvc.format] = @ + 1], "true")
           ELSE IF rpc = "error"
           THEN BReturn(bsvc, "true")
           ELSE BRetry(bsvc)
        /\ UNCHANGED <<pipeVars, dl, sub, audio>>

InitBeat ==
    /\ InitPipeline
    /\ dl = DlIdle
    /\ sub = SubIdle
    /\ audio = AudioIdle
    /\ bsvc = BeatIdle

NextBeat ==
    \/ BRecord
    \/ BInserted
    \/ BCounted

SpecBeat == InitBeat /\ [][NextBeat]_vars

\* ================================================================ claims
Has(i, op) == \E k \in 1..Len(trace[i]) : trace[i][k] = op
Started(i) == pc[i] \notin {"idle", "retired"}
Done(i) == pc[i] = "done"
AllStagesOk(i) == \A s \in StageNames : stage[i][s] = "ok"
NoStageStarted(i) == \A s \in StageNames : stage[i][s] = "idle"
SomeStageFailed(i) == \E s \in StageNames : stage[i][s] = "fail"
EnvIncomplete(i) == req[i].env.url = Undef \/ req[i].env.key = Undef
NonEmptyString(v) == v.t = "string" /\ Len(v.s) > 0
IsPrefix(a, b) == Len(a) <= Len(b) /\ SubSeq(b, 1, Len(a)) = a
\* the calls that open the four stages, in the order they were made
StageCalls(i) == SelectSeq(trace[i], LAMBDA op : op \in {"sign", "get", "ffmpeg", "upload"})
\* the object invocation i published, if the store holds it
Published(i, key) ==
    \E o \in store : /\ o.bucket = ToStr(loc[i].destBucket)
                     /\ o.key = ToStr(key)
                     /\ o.data = PreviewData(i)

\* C1: whenever an invocation that created a scratch directory has returned
\* its response or exited, on whatever path, that directory no longer exists.
C1_ScratchRemovedOnEveryExit ==
    \A i \in Inv : Done(i) /\ loc[i].tmpDir # 0 => loc[i].tmpDir \notin fsDirs

\* C2: an upload is issued only after the encoder of the same invocation
\* exited with status 0 and without spawn error; an invocation whose
\* transcode did not succeed has put nothing into the store, and nothing but
\* complete previews is ever stored.
C2_UploadOnlyAfterTranscode ==
    /\ \A i \in Inv :
        /\ Has(i, "upload") => stage[i]["transcode"] = "ok"
        /\ Started(i) /\ stage[i]["transcode"] # "ok" =>
              \A o \in store : o.data.inv # i
    /\ \A o \in store : o.data.of = "preview"

\* a transcode failed while the store held an earlier object under the very
\* key this invocation was to publish to
C2_Witness ==
    \E i \in Inv : \E o \in store :
        /\ Done(i) /\ stage[i]["transcode"] = "fail"
        /\ o.bucket = ToStr(loc[i].destBucket) /\ o.key = ToStr(loc[i].destPath)
        /\ o.data.inv # i

\* C3: when the version probe reports a spawn error the invocation ends at
\* once: no client, no signed-URL request, no GET, no scratch directory, no
\* upload, in the handler and in the CLI.
C3_NoStoreCallWithoutTool ==
    \A i \in Inv : stage[i]["probe"] = "fail" =>
        /\ Done(i)
        /\ \A k \in 1..Len(trace[i]) : trace[i][k] \in {"env", "json", "probe"}
        /\ NoStageStarted(i)
        /\ loc[i].tmpDir = 0 /\ loc[i].signedUrl = Undef

\* a CLI run with both flags and both credentials whose probe could not spawn
C3_Witness ==
    \E i \in Inv : kind[i] = "cli" /\ stage[i]["probe"] = "fail" /\ Has(i, "probe")

\* C4: the stages run in the order sign, fetch, transcode, publish: a stage
\* has started only if the one before it succeeded, the calls that open the
\* stages appear in that order without gaps, and a successful invocation
\* ran all four.
C4_StagesInOrder ==
    \A i \in Inv :
        /\ \A k \in 2..4 : stage[i][Stages[k]] # "idle" => stage[i][Stages[k - 1]] = "ok"
        /\ stage[i]["sign"] # "idle" => stage[i]["probe"] = "ok"
        /\ IsPrefix(StageCalls(i), <<"sign", "get", "ffmpeg", "upload">>)
        /\ Done(i) /\ resp[i].code \in {0, 200} => AllStagesOk(i)

C4_Witness ==
    \E i \in Inv : Done(i) /\ AllStagesOk(i)
                   /\ StageCalls(i) = <<"sign", "get", "ffmpeg", "upload">>

\* C5: a well-formed POST on a configured server with the tool available is
\* answered 200 exactly when all four stages succeeded, and 500 otherwise;
\* the 200 body carries a public URL and the key the artifact is stored under.
C5_Handler200IffAllStagesOk ==
    \A i \in Inv : kind[i] = "handler" /\ Done(i) /\ stage[i]["probe"] = "ok" =>
        /\ resp[i].code = 200 <=> AllStagesOk(i)
        /\ ~AllStagesOk(i) => resp[i].code = 500 /\ SomeStageFailed(i)
        /\ resp[i].code = 200 =>
              /\ Published(i, resp[i].path)
              /\ resp[i].publicUrl =
                    Str(PublicUrl(req[i].env.url, loc[i].destBucket, resp[i].path))

\* a 200 for a request that named no destination key
C5_Witness ==
    \E i \in Inv : /\ kind[i] = "handler" /\ Done(i) /\ resp[i].code = 200
                   /\ req[i].body.destPath = Undef

\* C6: the CLI exits 2 exactly when --bucket or --path is absent, an
\* environment credential is missing or the tool probe failed; 1 exactly
\* when one of the four stages failed; 0 only after the upload succeeded and
\* the public URL was written to stdout.
FlagAbsent(i, name) == \A k \in 1..Len(req[i].argv) : req[i].argv[k] # Flag(name)
C6_CliExitCodes ==
    \A i \in Inv : kind[i] = "cli" /\ Done(i) =>
        /\ resp[i].code \in {0, 1, 2}
        /\ resp[i].code = 2 <=>
              \/ FlagAbsent(i, "bucket") \/ FlagAbsent(i, "path")
              \/ EnvIncomplete(i)
              \/ stage[i]["probe"] = "fail"
        /\ resp[i].code = 1 <=> SomeStageFailed(i)
        /\ resp[i].code = 0 =>
              /\ stage[i]["publish"] = "ok"
              /\ Published(i, loc[i].destPath)
              /\ \E k \in 1..Len(log[i]) :
                    /\ log[i][k].stream = "stdout"
                    /\ log[i][k].arg =
                          PublicUrl(req[i].env.url, loc[i].destBucket, loc[i].destPath)

C6_Witness ==
    \E i \in Inv : kind[i] = "cli" /\ Done(i) /\ resp[i].code = 0

\* C7: a request whose method is not POST is answered 405 at once: the
\* environment was not inspected, the body not read, the tool not probed, no
\* store call made, nothing logged; and only such requests get 405.
C7_NonPostGets405 ==
    \A i \in Inv : kind[i] = "handler" =>
        /\ req[i].method # "POST" =>
              /\ Done(i) /\ resp[i].code = 405
              /\ trace[i] = <<>> /\ log[i] = <<>> /\ loc[i] = NoLoc
              /\ stage[i] = NoStage
        /\ resp[i].code = 405 => req[i].method # "POST"

\* a GET on a misconfigured server with a malformed body
C7_Witness ==
    \E i \in Inv : /\ kind[i] = "handler" /\ req[i].method = "GET"
                   /\ EnvIncomplete(i) /\ req[i].body.json = "invalid"

\* C8: with one of the two environment values missing every POST is answered
\* 500 'Server misconfigured' after the environment check alone: the body
\* was not read, whatever it holds, the tool was not probed and no store
\* call was made.
C8_MisconfiguredBeforeBody ==
    \A i \in Inv : kind[i] = "handler" /\ req[i].method = "POST" /\ EnvIncomplete(i) =>
        /\ Done(i)
        /\ resp[i].code = 500 /\ resp[i].text = "Server misconfigured"
        /\ trace[i] = <<"env">>
        /\ stage[i] = NoStage /\ loc[i] = NoLoc

\* a POST with a malformed body and no service key
C8_Witness ==
    \E i \in Inv : /\ kind[i] = "handler" /\ req[i].method = "POST"
                   /\ req[i].env.key = Undef /\ req[i].body.json = "invalid"

\* C9: on a configured server a POST whose body is not valid JSON or lacks a
\* non-empty sourceBucket or sourcePath is answered 400, and nothing but the
\* environment check and the body read came before: no probe, no signed-URL
\* request, no fetch, no scratch directory, no upload.
BodyBad(b) ==
    \/ b.json # "object"
    \/ ~NonEmptyString(b.sourceBucket)
    \/ ~NonEmptyString(b.sourcePath)
C9_BadBodyGets400 ==
    \A i \in Inv :
        kind[i] = "handler" /\ req[i].method = "POST" /\ ~EnvIncomplete(i)
            /\ BodyBad(req[i].body) =>
        /\ pc[i] \in {"h_json", "done"}
        /\ Done(i) => resp[i].code = 400
        /\ trace[i] = <<"env", "json">>
        /\ stage[i] = NoStage /\ loc[i].tmpDir = 0

\* the body names a bucket but no sourcePath
C9_Witness ==
    \E i \in Inv : /\ kind[i] = "handler" /\ Done(i) /\ resp[i].code = 400
                   /\ req[i].body.json = "object"
                   /\ NonEmptyString(req[i].body.sourceBucket)
                   /\ req[i].body.sourcePath = Undef

\* C10: the handler answers 501 exactly when the tool probe reported a spawn
\* error.
C10_501IffToolUnavailable ==
    \A i \in Inv : kind[i] = "handler" /\ Done(i) =>
        (resp[i].code = 501 <=> stage[i]["probe"] = "fail")

C10_Witness ==
    \E i \in Inv : kind[i] = "handler" /\ Done(i) /\ resp[i].code = 501


\* C11: no stage is retried inside an invocation: it makes at most one
\* signed-URL request, one GET of the source, one encoder run and one
\* upload; the first stage that fails ends the invocation, and no later
\* stage is started after it.
Count(i, op) == Len(SelectSeq(trace[i], LAMBDA o : o = op))
C11_NoRetry ==
    \A i \in Inv :
        /\ \A op \in {"sign", "get", "ffmpeg", "upload"} : Count(i, op) <= 1
        /\ SomeStageFailed(i) => Done(i)
        /\ \A k \in 1..3 : stage[i][Stages[k]] = "fail" =>
              \A n \in (k + 1)..4 : stage[i][Stages[n]] = "idle"

\* the GET failed after signing succeeded: one of each call, nothing after
C11_Witness ==
    \E i \in Inv : /\ Done(i) /\ stage[i]["sign"] = "ok" /\ stage[i]["fetch"] = "fail"
                   /\ Count(i, "sign") = 1 /\ Count(i, "get") = 1
                   /\ Count(i, "ffmpeg") = 0 /\ Count(i, "upload") = 0


\* C12: after a run that published successfully, the store holds exactly one
\* object under the run's destination bucket and key, and it is that run's
\* artifact, also when an earlier run had already published under the same
\* key; no key ever holds two objects.
C12_OneObjectPerKey ==
    /\ \A i \in Inv : Done(i) /\ stage[i]["publish"] = "ok" =>
          LET at == At(store, ToStr(loc[i].destBucket), ToStr(loc[i].finalDestPath)) IN
          /\ Cardinality(at) = 1
          /\ \A o \in at : o.data = PreviewData(i)
          /\ resp[i].code \in {0, 200}
    /\ \A o \in store : Cardinality(At(store, o.bucket, o.key)) = 1

\* the second of two successful runs with the same bucket and key: the key
\* has been written twice and holds the second run's artifact
C12_Witness ==
    \E i \in Inv : \E o \in store :
        /\ Done(i) /\ stage[i]["publish"] = "ok"
        /\ \E j \in Inv : j # i /\ pc[j] = "retired"
        /\ o.bucket = ToStr(loc[i].destBucket) /\ o.key = ToStr(loc[i].finalDestPath)
        /\ o.rev = 2 /\ o.data = PreviewData(i)


\* C15: when signing fails or comes back without a signed URL, the
\* invocation ends with status 500 (handler) or exit code 1 (CLI); it issued
\* no GET, created no scratch directory, did not run the encoder or the
\* upload, and the store holds no object of it.
C15_SignFailureEndsRun ==
    \A i \in Inv : stage[i]["sign"] = "fail" =>
        /\ Done(i)
        /\ resp[i].code = IF kind[i] = "handler" THEN 500 ELSE 1
        /\ \A op \in {"get", "mkdtemp", "write", "ffmpeg", "upload"} : ~Has(i, op)
        /\ loc[i].tmpDir = 0 /\ loc[i].signedUrl = Undef
        /\ \A o \in store : o.data.inv # i

\* the store answered the signing request without a URL while it held an
\* object of an earlier run
C15_Witness ==
    \E i \in Inv :
        /\ kind[i] = "handler" /\ Done(i) /\ stage[i]["sign"] = "fail"
        /\ resp[i].text = "Could not access source object"
        /\ got[i] = <<"ok", "nourl">>
        /\ store # {}


\* C16: every object the pipeline has published carries the content type
\* audio/mpeg.
AudioMpeg == <<"audio", "/", "mpeg">>
C16_PublishedAsAudioMpeg ==
    \A o \in store : o.contentType = AudioMpeg


\* C18: an upload goes to bucket 'beat-previews' when the caller named no
\* destination bucket and under a key previews/preview_<unix-ms>.mp3 when the
\* caller named no destination key; a bucket or key the caller named is used
\* as given; the object is stored under that bucket and key and the public
\* URL reported is the one of that bucket and key.
GivenDestBucket(i) ==
    IF kind[i] = "handler" THEN req[i].body.destBucket
    ELSE ParseArgs(req[i].argv)["destBucket"]
GivenDestKey(i) ==
    IF kind[i] = "handler" THEN req[i].body.destPath
    ELSE ParseArgs(req[i].argv)["dest"]
IsGeneratedKey(k) ==
    \E ms \in 0..MaxClock :
        k = Str(<<"previews", "/", "preview_">> \o Dec(ms) \o <<".", "mp3">>)
C18_DestinationDefaults ==
    \A i \in Inv : Has(i, "upload") =>
        LET b == loc[i].destBucket
            k == loc[i].finalDestPath
        IN
        /\ IF GivenDestBucket(i) = Undef
           THEN b = Str(<<"beat-previews">>)
           ELSE b = GivenDestBucket(i)
        /\ IF GivenDestKey(i) = Undef
           THEN IsGeneratedKey(k)
           ELSE k = GivenDestKey(i)
        /\ stage[i]["publish"] = "ok" =>
              \E o \in store : /\ o.bucket = ToStr(b) /\ o.key = ToStr(k)
                               /\ o.data = PreviewData(i)
        /\ Done(i) /\ resp[i].code = 200 =>
              /\ resp[i].path = k
              /\ resp[i].publicUrl = Str(PublicUrl(req[i].env.url, b, k))
        /\ Done(i) /\ resp[i].code = 0 /\ kind[i] = "cli" =>
              \E n \in 1..Len(log[i]) :
                  /\ log[i][n].text = "Public URL:"
                  /\ log[i][n].arg = PublicUrl(req[i].env.url, b, k)

\* a request naming neither bucket nor key was published under the defaults
C18_Witness ==
    \E i \in Inv : \E o \in store :
        /\ Done(i) /\ kind[i] = "handler" /\ resp[i].code = 200
        /\ req[i].body.destBucket = Undef /\ req[i].body.destPath = Undef
        /\ o.bucket = <<"beat-previews">> /\ IsGeneratedKey(Str(o.key))
        /\ o.data = PreviewData(i)


\* C19: an invocation with a configuration error (a missing environment
\* credential, a missing --bucket or --path flag, a body that is no object
\* or lacks sourceBucket or sourcePath) ends reporting it, 500 or 400 from
\* the handler and exit code 2 from the CLI, without having spawned the tool
\* probe, built a store client, asked for a signed URL, fetched anything or
\* touched the filesystem.
ConfigError(i) ==
    IF kind[i] = "handler"
    THEN req[i].method = "POST" /\ (EnvIncomplete(i) \/ BodyBad(req[i].body))
    ELSE FlagAbsent(i, "bucket") \/ FlagAbsent(i, "path") \/ EnvIncomplete(i)
PipelineIO ==
    {"probe", "createClient", "sign", "get", "mkdtemp", "arrayBuffer", "write",
     "ffmpeg", "upload", "publicUrl", "rm"}
C19_ConfigErrorBeforeIO ==
    \A i \in Inv : Started(i) /\ ConfigError(i) =>
        /\ pc[i] \in {"h_json", "done"}
        /\ \A op \in PipelineIO : ~Has(i, op)
        /\ got[i] = <<>> /\ stage[i] = NoStage
        /\ loc[i].tmpDir = 0 /\ loc[i].signedUrl = Undef
        /\ Done(i) => /\ resp[i].code = IF kind[i] = "cli" THEN 2
                                        ELSE IF EnvIncomplete(i) THEN 500 ELSE 400
                      /\ kind[i] = "cli" \/ EnvIncomplete(i) =>
                            \E n \in 1..Len(log[i]) : log[i][n].stream = "stderr"

\* a CLI run without --path and a handler request without sourcePath, both
\* turned away
C19_Witness ==
    \E i \in Inv :
        /\ Done(i) /\ ConfigError(i) /\ resp[i].code \in {2, 400}
        /\ \/ kind[i] = "cli" /\ FlagAbsent(i, "path") /\ ~EnvIncomplete(i)
           \/ /\ kind[i] = "handler" /\ req[i].body.json = "object"
              /\ req[i].body.sourcePath = Undef


\* C20: after a fetch failure, be it a GET answered with a non-success
\* status, a GET that was rejected, or a body read that was rejected, the
\* invocation has ended in failure, the encoder has not run, no upload was
\* issued, and no scratch directory or file of the invocation remains.
GetFailed(i) == Len(got[i]) = 3 /\ got[i][3] \in {"notok", "throw"}
BodyReadFailed(i) == Len(got[i]) = 5 /\ got[i][5] = "throw"
C20_FetchFailureLeavesNothing ==
    \A i \in Inv : GetFailed(i) \/ BodyReadFailed(i) =>
        /\ Done(i) /\ resp[i].code \in {1, 500}
        /\ ~Has(i, "ffmpeg") /\ ~Has(i, "upload")
        /\ loc[i].tmpDir \notin fsDirs
        /\ \A f \in fsFiles : f.dir # loc[i].tmpDir


\* C13: with invocations running concurrently, an upload the store answers
\* with success replaces whatever is under its bucket and key, also when a
\* concurrent invocation put it there: right after it the key holds exactly
\* one object, the artifact of the invocation whose upload just completed,
\* and that invocation reports success. The store changes in no other step
\* and no key ever holds two objects, so that once all have finished the key
\* holds the artifact of the upload that completed last.
Completes(i) == stage[i]["publish"] = "run" /\ stage'[i]["publish"] = "ok"
LastWriterWins ==
    /\ \A i \in Inv : Completes(i) =>
          LET at == At(store', ToStr(loc[i].destBucket), ToStr(loc[i].finalDestPath)) IN
          /\ Cardinality(at) = 1
          /\ \A o \in at : o.data = PreviewData(i)
          /\ resp'[i].code \in {0, 200}
    /\ store' # store => \E i \in Inv : Completes(i)
C13_LastWriterWins ==
    /\ [](\A o \in store : Cardinality(At(store, o.bucket, o.key)) = 1)
    /\ [][LastWriterWins]_vars

\* two invocations published under one key and both reported success; the
\* one that arrived first completed its upload last and its artifact is the
\* one stored
C13_Witness ==
    \E i \in Inv : \E j \in Inv : \E o \in store :
        /\ i < j /\ Done(i) /\ Done(j)
        /\ stage[i]["publish"] = "ok" /\ stage[j]["publish"] = "ok"
        /\ loc[i].destBucket = loc[j].destBucket
        /\ loc[i].finalDestPath = loc[j].finalDestPath
        /\ o.key = ToStr(loc[i].finalDestPath)
        /\ o.rev = 2 /\ o.data = PreviewData(i)

\* C14: invocations that are in flight at the same time hold different
\* scratch directories; every scratch file lies in the directory of the
\* invocation that wrote it; a directory is created or removed and its files
\* change only in a step of the invocation that holds it, while no other
\* in-flight invocation holds it; and what an invocation uploads is the
\* preview it encoded itself.
InFlight(i) == pc[i] \in {"h_buffer", "h_upload", "c_buffer", "c_upload"}
FilesIn(files, d) == {f \in files : f.dir = d}
ScratchApart ==
    /\ \A i \in Inv : InFlight(i) =>
          /\ loc[i].tmpDir \in fsDirs
          /\ \A j \in Inv \ {i} : InFlight(j) => loc[j].tmpDir # loc[i].tmpDir
    /\ \A f \in fsFiles : f.dir \in fsDirs /\ loc[f.data.inv].tmpDir = f.dir
OwnScratchOnly ==
    /\ \A d \in DirNames :
          (d \in fsDirs) # (d \in fsDirs') \/ FilesIn(fsFiles, d) # FilesIn(fsFiles', d) =>
              \E i \in Inv : /\ pc'[i] # pc[i]
                             /\ loc'[i].tmpDir = d
                             /\ \A j \in Inv \ {i} : InFlight(j) => loc[j].tmpDir # d
    /\ \A i \in Inv : Completes(i) => \E o \in store' : o.data = PreviewData(i)
C14_ScratchIsolation ==
    /\ []ScratchApart
    /\ [][OwnScratchOnly]_vars

\* a request and a command at their uploads at the same time, each with its
\* own preview in its own directory
C14_Witness ==
    \E i \in Inv : \E j \in Inv :
        /\ pc[i] = "h_upload" /\ pc[j] = "c_upload"
        /\ loc[i].tmpDir # loc[j].tmpDir
        /\ HasFile(loc[i].tmpDir, OutputName) /\ HasFile(loc[j].tmpDir, OutputName)
        /\ FileData(loc[i].tmpDir, OutputName) = PreviewData(i)
        /\ FileData(loc[j].tmpDir, OutputName) = PreviewData(j)


\* C17: when the request handler and the CLI are given the same source
\* bucket and key, destination bucket and key and environment, and their
\* external calls come back with the same outcomes, both make the same
\* external calls in the same order (tool probe, sign, GET, scratch
\* creation, encoder, upload, public URL, scratch removal), both end in the
\* same class of result (success, configuration error, tool unavailable,
\* failure) with the same stages run and failed, and both upload to the same
\* bucket and, when a key was named, the same key.
ExternalCalls(i) ==
    SelectSeq(trace[i], LAMBDA op : op \in {"probe", "sign", "get", "mkdtemp",
                                            "ffmpeg", "upload", "publicUrl", "rm"})
Said(i, text) == \E n \in 1..Len(log[i]) : log[i][n].text = text
Class(i) ==
    IF kind[i] = "handler"
    THEN CASE resp[i].code = 200 -> "success"
           [] resp[i].code = 501 -> "tool"
           [] resp[i].code = 400 -> "config"
           [] resp[i].code = 500 /\ resp[i].text = "Server misconfigured" -> "config"
           [] resp[i].code = 500 /\ resp[i].text # "Server misconfigured" -> "failed"
           [] OTHER -> "other"
    ELSE CASE resp[i].code = 0 -> "success"
           [] resp[i].code = 2 /\ Said(i, "ERROR: ffmpeg not found on PATH") -> "tool"
           [] resp[i].code = 2 /\ ~Said(i, "ERROR: ffmpeg not found on PATH") -> "config"
           [] resp[i].code = 1 -> "failed"
           [] OTHER -> "other"
GivenSource(i) ==
    IF kind[i] = "handler"
    THEN [bucket |-> req[i].body.sourceBucket, path |-> req[i].body.sourcePath, ttl |-> 60]
    ELSE [bucket |-> ParseArgs(req[i].argv)["bucket"],
          path |-> ParseArgs(req[i].argv)["path"], ttl |-> 60]
C21_OneSignedUrlOneGet ==
    \A i \in Inv :
        /\ Count(i, "sign") <= 1 /\ Count(i, "get") <= 1
        /\ Has(i, "sign") <=> loc[i].signReq # NoSignReq
        /\ Has(i, "sign") => loc[i].signReq = GivenSource(i)
        /\ Has(i, "get") <=> loc[i].getUrl # Undef
        /\ Has(i, "get") =>
              /\ Has(i, "sign") /\ stage[i]["sign"] = "ok"
              /\ loc[i].getUrl = loc[i].signedUrl
              /\ \A j \in Inv \ {i} : loc[j].getUrl # loc[i].getUrl

\* a request and a command fetched the same source object, each through
\* the signed URL of its own
C21_Witness ==
    \E i \in Inv : \E j \in Inv :
        /\ kind[i] = "handler" /\ kind[j] = "cli"
        /\ Has(i, "get") /\ Has(j, "get")
        /\ loc[i].signReq = loc[j].signReq
        /\ loc[i].getUrl # loc[j].getUrl


\* C22: nothing an invocation emits contains its service key or its signed
\* URL: not the response, not a console line, not the name of a scratch
\* file, not the bucket or key of a stored object; and two runs of the same
\* invocation that differ in the service key and in the signed URL they
\* were issued, with the same outcomes of their calls and the same
\* destination key, emit the same response and the same console lines.
Range(q) == {q[n] : n \in 1..Len(q)}
SecretAtoms(i) ==
    (IF req[i].env.key = Undef THEN {} ELSE Range(ToStr(req[i].env.key)))
        \cup (IF loc[i].signedUrl = Undef THEN {} ELSE {"?token="})
Emitted(i) ==
    {resp[i].text} \cup Range(ToStr(resp[i].publicUrl)) \cup Range(ToStr(resp[i].path))
        \cup UNION {{log[i][n].text} \cup Range(log[i][n].arg) : n \in 1..Len(log[i])}
        \cup UNION {Range(f.name) : f \in FilesIn(fsFiles, loc[i].tmpDir)}
        \cup UNION {Range(o.bucket) \cup Range(o.key)
                        : o \in {x \in store : x.data.inv = i}}
C22_SecretsNotEmitted ==
    /\ \A i \in Inv : SecretAtoms(i) \cap Emitted(i) = {}
    /\ \A i \in Inv :
          (/\ i % 2 = 1 /\ i + 1 \in Inv /\ Done(i) /\ Done(i + 1)
           /\ got[i] = got[i + 1]
           /\ loc[i].destPath = loc[i + 1].destPath
           /\ loc[i].finalDestPath = loc[i + 1].finalDestPath)
          => resp[i] = resp[i + 1] /\ log[i] = log[i + 1]

\* the same request under two keys, the download rejected both times after
\* two different signed URLs were issued: same response, same console lines
C22_Witness ==
    \E i \in Inv :
        /\ i + 1 \in Inv /\ kind[i] = "handler" /\ Done(i) /\ Done(i + 1)
        /\ req[i].env.key = ServiceKey /\ req[i + 1].env.key = OtherKey
        /\ loc[i].signedUrl # Undef /\ loc[i + 1].signedUrl # Undef
        /\ loc[i].signedUrl # loc[i + 1].signedUrl
        /\ got[i] = <<"ok", "ok", "throw">> /\ got[i + 1] = got[i]
        /\ Len(log[i]) > 0


\* C23: the scratch directory of an invocation holds nothing but the input
\* file, named input.wav for the source key mp3/a.wav and input.mp3 for the
\* key mp3/noext that has no suffix, and preview.mp3; the input holds the
\* bytes fetched by this invocation; preview.mp3 is there only after this
\* invocation ran the encoder; and the object an upload stores is the
\* content of this invocation's preview.mp3.
ExpectedInput(i) ==
    IF loc[i].sourcePath = WavPath THEN <<"input", ".", "wav">>
    ELSE IF loc[i].sourcePath = BarePath THEN <<"input", ".", "mp3">>
    ELSE <<>>
ScratchContent ==
    \A i \in Inv : Started(i) /\ loc[i].tmpDir # 0 =>
        \A f \in FilesIn(fsFiles, loc[i].tmpDir) :
            \/ /\ f.name = ExpectedInput(i)
               /\ f.data = SourceData(i)
               /\ Has(i, "write")
            \/ /\ f.name = <<"preview", ".", "mp3">>
               /\ f.data.inv = i
               /\ Has(i, "ffmpeg")
UploadsOwnPreview ==
    \A i \in Inv : Completes(i) =>
        /\ HasFile(loc[i].tmpDir, <<"preview", ".", "mp3">>)
        /\ \E o \in store' :
              /\ o.bucket = ToStr(loc[i].destBucket)
              /\ o.key = ToStr(loc[i].finalDestPath)
              /\ o.data = FileData(loc[i].tmpDir, <<"preview", ".", "mp3">>)
C23_ScratchHoldsInputAndPreview ==
    /\ []ScratchContent
    /\ [][UploadsOwnPreview]_vars

\* both files present for a source key with a suffix, upload under way
C23_Witness ==
    \E i \in Inv :
        /\ pc[i] \in {"h_upload", "c_upload"} /\ loc[i].sourcePath = WavPath
        /\ HasFile(loc[i].tmpDir, <<"input", ".", "wav">>)
        /\ HasFile(loc[i].tmpDir, <<"preview", ".", "mp3">>)
        /\ Cardinality(FilesIn(fsFiles, loc[i].tmpDir)) = 2


\* C24: when every call an invocation waits for comes back or fails, the
\* invocation ends; it ends once, the response or exit code is set in the
\* step that ends it and in no other; the handler's status is one of 200,
\* 400, 405, 500, 501 and the CLI's exit code one of 0, 1, 2.
Running(i) == pc[i] \notin {"idle", "done", "retired"}
OneOutcome ==
    \A i \in Inv :
        /\ resp'[i] # resp[i] =>
              \/ (pc[i] = "idle" \/ Running(i)) /\ pc'[i] = "done"
              \/ pc[i] = "done" /\ pc'[i] = "retired"
        /\ pc[i] # "done" /\ pc'[i] = "done" => resp'[i].code # -1
        /\ pc[i] = "done" => pc'[i] \in {"done", "retired"}
OutcomeInRange ==
    \A i \in Inv :
        /\ Done(i) /\ kind[i] = "handler" => resp[i].code \in {200, 400, 405, 500, 501}
        /\ Done(i) /\ kind[i] = "cli" => resp[i].code \in {0, 1, 2}
        /\ ~Done(i) => resp[i] = NoResp
HasValue(i, name) ==
    \E n \in 1..(Len(req[i].argv) - 1) :
        /\ req[i].argv[n] = Flag(name)
        /\ ~req[i].argv[n + 1].dd
        /\ Len(req[i].argv[n + 1].rest) > 0
C25_ValuelessFlagIsMissing ==
    \A i \in Inv :
        kind[i] = "cli" /\ Started(i)
            /\ ~(HasValue(i, "bucket") /\ HasValue(i, "path")) =>
        /\ Done(i) /\ resp[i].code = 2
        /\ \A op \in {"probe", "createClient", "sign"} : ~Has(i, op)

\* C26: a Basic-plan user never has more than 30 downloads recorded in the
\* month, however the download flows interleave.
C26_BasicNeverOverLimit ==
    dl.plan = "Basic" => dl.rows <= 30

\* C27: upgradeUserPlan is all-or-nothing: when it has returned
\* success:false, the call has inserted no completed payment row and the
\* profile's plan_tier is what it was when the call began.
C27_FailureWritesNothing ==
    (sub.up.pc = "idle" /\ sub.up.result = "failure")
        => (~sub.up.wrote /\ sub.plan = sub.up.before)

\* C28: when the first delivery of a charge.success event has recorded its
\* payment, then after the second delivery of the same event the payments
\* table still holds exactly that one row for the reference, and plan_tier,
\* subscription status and download counter are as after the first.
C28_SecondDeliveryChangesNothing ==
    (sub.up.pc = "idle" /\ sub.delivered = 2 /\ sub.after1.rows = 1)
        => Snapshot(sub) = sub.after1

\* C29: a loadAudio(u) call returns true only if the element has loaded the
\* metadata of u since u became the current URL, and isLoading is false
\* when the call returns.
LoadReturns ==
    /\ audio'.pc = "idle"
    /\ audio.pc # "idle" \/ audio'.loads # audio.loads
C29_TrueOnlyAfterLoad ==
    [][LoadReturns =>
          /\ audio'.result = "true" => audio'.loadedFor = audio'.url
          /\ ~audio'.isLoading]_vars

\* C30: a recordDownload call issues at most 3 inserts, inserts at most one
\* downloads row, returns true exactly when it has inserted its row and
\* false only after 3 failed attempts.
C30_OneRowPerCall ==
    /\ bsvc.inserts <= MaxRetries
    /\ bsvc.wrote <= 1
    /\ bsvc.result = "true" => bsvc.wrote = 1
    /\ bsvc.result = "false" => (bsvc.attempts = MaxRetries /\ bsvc.wrote = 0)

====
